---- MODULE Spec2Model ----
(***************************************************************************)
(* A model of the recipe knowledge base of mc-gemini: the ingestion run    *)
(* create_database (src/src/database/builder.py), the SQLite store it      *)
(* writes, the RecipeDB queries (src/src/database/repository.py), and the  *)
(* chat sessions of SmartGeminiBackend (src/src/services/chat_service.py)  *)
(* with the function-calling loop process_chat_turn                        *)
(* (src/src/llm/client.py).                                                *)
(*                                                                         *)
(* Python strings are sequences of one-character strings, so that          *)
(* startswith, split, the substring test and the JSON text stored in the   *)
(* table are computed character by character, as the code computes them.   *)
(***************************************************************************)
EXTENDS Integers, Sequences, FiniteSets, TLC

VARIABLES
    dir,              \* the *.json files of recipes_path, in glob order
    db,               \* the committed content of the database file
    tx,               \* rows INSERTed by the writer's open transaction
    pc,               \* create_database's position
    idx,              \* index in dir of the next file of the for loop
    processed_files,  \* builder.py:62
    skipped_files,    \* builder.py:63
    exc,              \* the exception that left create_database, or NoExc
    runs,             \* number of create_database calls started
    prev,             \* history: db when the current run started
    lastDone,         \* history: the rows committed by the last completed run
    seen,             \* what the reader's last query returned
    available_ingredients,  \* argument of the last find_craftable_recipes
    exact_match,            \* argument of the last find_craftable_recipes
    craftable_recipes,      \* its return value
    qpc,                    \* "ready" before the query, "done" after it
    lookup,                 \* the last find_recipes_by_* call: method, argument
    found,                  \* its return value
    raised,                 \* the exception it raised, or NoExc
    now,              \* time.time(), in seconds
    ticks,            \* number of times the clock has advanced
    sessions,         \* chat_service.py:19: player -> chat, last_active
    created,          \* number of chat objects chats.create has returned
    calls,            \* number of chat calls started
    call,             \* the chat call in progress
    tpc,              \* its position in chat and process_chat_turn
    iter,             \* iterations of the for loop completed (client.py:80)
    response,         \* client.py:76, 97: the last response of the model
    responses,        \* history: the responses of the turn, in order
    tool_calls,       \* history: tool functions called in the turn
    answer,           \* what process_chat_turn returned
    ended             \* history: the last chat call that ended

vars ==
    <<dir, db, tx, pc, idx, processed_files, skipped_files, exc, runs, prev,
      lastDone, seen, available_ingredients, exact_match, craftable_recipes,
      qpc, lookup, found, raised, now, ticks, sessions, created, calls, call,
      tpc, iter, response, responses, tool_calls, answer, ended>>

builderVars ==
    <<dir, tx, pc, idx, processed_files, skipped_files, exc, runs, prev,
      lastDone, seen>>

queryVars ==
    <<available_ingredients, exact_match, craftable_recipes, qpc, lookup, found,
      raised>>

chatVars ==
    <<now, ticks, sessions, created, calls, call, tpc, iter, response,
      responses, tool_calls, answer, ended>>

(***************************************************************************)
(* Bounds of the model.                                                    *)
(***************************************************************************)
MaxIng == 4      \* entries of a stored ingredient list (query specification)
MaxInv == 4      \* items of an inventory
MaxUnits == 2    \* files in recipes_path
MaxRuns == 2     \* create_database calls in one behaviour
MaxNeedle == 2   \* characters of the argument of find_recipes_by_name

(***************************************************************************)
(* Characters and strings.                                                 *)
(***************************************************************************)
\* The characters used, in code point order (Python compares str by code point).
Alphabet ==
    <<" ", "\"", "#", ",", ".", ":",
      "A", "B", "C", "D", "E", "F", "G", "H", "I", "J", "K", "L", "M",
      "N", "O", "P", "Q", "R", "S", "T", "U", "V", "W", "X", "Y", "Z",
      "[", "]", "_",
      "a", "b", "c", "d", "e", "f", "g", "h", "i", "j", "k", "l", "m",
      "n", "o", "p", "q", "r", "s", "t", "u", "v", "w", "x", "y", "z">>

Ord(c) == CHOOSE i \in DOMAIN Alphabet : Alphabet[i] = c

LowerCase == SubSeq(Alphabet, 36, 61)
UpperCase == SubSeq(Alphabet, 7, 32)

IsLower(c) == \E i \in DOMAIN LowerCase : LowerCase[i] = c
IsUpper(c) == \E i \in DOMAIN UpperCase : UpperCase[i] = c
IsAlpha(c) == IsLower(c) \/ IsUpper(c)

upper(c) ==
    IF IsLower(c) THEN UpperCase[CHOOSE i \in DOMAIN LowerCase : LowerCase[i] = c]
    ELSE c

lower(c) ==
    IF IsUpper(c) THEN LowerCase[CHOOSE i \in DOMAIN UpperCase : UpperCase[i] = c]
    ELSE c

Range(s) == {s[i] : i \in DOMAIN s}

\* str.startswith
startswith(s, prefix) ==
    Len(s) >= Len(prefix) /\ SubSeq(s, 1, Len(prefix)) = prefix

\* `sub in s` on two str
contains(sub, s) ==
    \E k \in 0..(Len(s) - Len(sub)) : SubSeq(s, k + 1, k + Len(sub)) = sub

\* s.split(sep)[-1] for a one-character sep: the text after the last sep,
\* the whole of s when it holds none.
split_last(s, sep) ==
    LET at == {i \in DOMAIN s : s[i] = sep}
    IN  IF at = {} THEN s
        ELSE SubSeq(s, (CHOOSE i \in at : \A j \in at : j <= i) + 1, Len(s))

\* s.replace(old, new) for one-character old and new
replace(s, old, new) == [i \in DOMAIN s |-> IF s[i] = old THEN new ELSE s[i]]

\* str.title(): a letter is upper-cased when it follows a non-letter (or
\* starts the string) and lower-cased otherwise.
title(s) ==
    [i \in DOMAIN s |->
        IF i = 1 \/ ~IsAlpha(s[i - 1]) THEN upper(s[i]) ELSE lower(s[i])]

\* a < b on two str
StrLess(a, b) ==
    \E k \in 1..Len(b) :
        /\ k <= Len(a) + 1
        /\ SubSeq(a, 1, k - 1) = SubSeq(b, 1, k - 1)
        /\ (k = Len(a) + 1 \/ Ord(a[k]) < Ord(b[k]))

\* Mutant of sorted: the list is stored in the order of its declaration.
sorted_as_declared(l) == l

RECURSIVE Insert(_, _)
Insert(x, l) ==
    IF l = <<>> THEN <<x>>
    ELSE IF StrLess(x, Head(l)) THEN <<x>> \o l
    ELSE <<Head(l)>> \o Insert(x, Tail(l))

\* sorted() on a list of str
RECURSIVE sorted(_)
sorted(l) == IF l = <<>> THEN <<>> ELSE Insert(Head(l), sorted(Tail(l)))

RECURSIVE SumOver(_, _)
SumOver(S, f) ==
    IF S = {} THEN 0
    ELSE LET x == CHOOSE y \in S : TRUE IN f[x] + SumOver(S \ {x}, f)

(***************************************************************************)
(* Identifiers of the program and of the modelled recipes.                 *)
(***************************************************************************)
NS_MINECRAFT == <<"m", "i", "n", "e", "c", "r", "a", "f", "t", ":">>

CRAFTING_SPECIAL_ ==
    NS_MINECRAFT \o <<"c", "r", "a", "f", "t", "i", "n", "g", "_",
                      "s", "p", "e", "c", "i", "a", "l", "_">>

CRAFTING_DECORATED_POT ==
    NS_MINECRAFT \o <<"c", "r", "a", "f", "t", "i", "n", "g", "_", "d", "e",
                      "c", "o", "r", "a", "t", "e", "d", "_", "p", "o", "t">>

SMITHING_TRIM ==
    NS_MINECRAFT \o <<"s", "m", "i", "t", "h", "i", "n", "g", "_",
                      "t", "r", "i", "m">>

SPECIAL_ == NS_MINECRAFT \o <<"s", "p", "e", "c", "i", "a", "l", "_">>

UNKNOWN == <<"u", "n", "k", "n", "o", "w", "n">>

DOT_JSON == <<".", "j", "s", "o", "n">>

CRAFTING_SHAPED ==
    NS_MINECRAFT \o <<"c", "r", "a", "f", "t", "i", "n", "g", "_",
                      "s", "h", "a", "p", "e", "d">>

CRAFTING_SHAPELESS ==
    NS_MINECRAFT \o <<"c", "r", "a", "f", "t", "i", "n", "g", "_",
                      "s", "h", "a", "p", "e", "l", "e", "s", "s">>

CRAFTING_SPECIAL_ARMORDYE ==
    CRAFTING_SPECIAL_ \o <<"a", "r", "m", "o", "r", "d", "y", "e">>

OAK_PLANKS ==
    NS_MINECRAFT \o <<"o", "a", "k", "_", "p", "l", "a", "n", "k", "s">>

BIRCH_PLANKS ==
    NS_MINECRAFT \o <<"b", "i", "r", "c", "h", "_", "p", "l", "a", "n", "k", "s">>

STICK == NS_MINECRAFT \o <<"s", "t", "i", "c", "k">>

COBBLESTONE ==
    NS_MINECRAFT \o <<"c", "o", "b", "b", "l", "e", "s", "t", "o", "n", "e">>

TAG_PLANKS == <<"#">> \o NS_MINECRAFT \o <<"p", "l", "a", "n", "k", "s">>

CHEST == NS_MINECRAFT \o <<"c", "h", "e", "s", "t">>

LEVER == NS_MINECRAFT \o <<"l", "e", "v", "e", "r">>

TORCH == NS_MINECRAFT \o <<"t", "o", "r", "c", "h">>

\* an identifier of another namespace
MOD_CHEST == <<"m", "o", "d", ":", "c", "h", "e", "s", "t">>

\* an item whose id is the text of the planks tag without its marker
PLANKS == NS_MINECRAFT \o <<"p", "l", "a", "n", "k", "s">>

(***************************************************************************)
(* JSON text and SQL values.                                               *)
(***************************************************************************)
\* SQL NULL: no text (every element of a text is a single character).
SQL_NULL == <<"NULL">>

RECURSIVE JoinQuoted(_)
JoinQuoted(l) ==
    IF l = <<>> THEN <<>>
    ELSE <<"\"">> \o Head(l) \o <<"\"">>
         \o (IF Tail(l) = <<>> THEN <<>> ELSE <<",", " ">> \o JoinQuoted(Tail(l)))

\* json.dumps of a list of str (the identifiers hold no character that
\* json.dumps escapes)
json_dumps(l) == <<"[">> \o JoinQuoted(l) \o <<"]">>

\* the j-th smallest element of a set of integers
Nth(S, j) == CHOOSE i \in S : Cardinality({m \in S : m <= i}) = j

\* json.loads of the text of an array of str: the texts between the 1st and
\* 2nd quote, the 3rd and 4th, and so on
json_loads(text) ==
    LET quotes == {i \in DOMAIN text : text[i] = "\""}
    IN  [k \in 1..(Cardinality(quotes) \div 2) |->
            SubSeq(text, Nth(quotes, 2 * k - 1) + 1, Nth(quotes, 2 * k) - 1)]

\* the ingredient list of a stored row
IngredientsOf(row) == json_loads(row.ingredients_json)

\* builder.py:19
get_clean_name(item_id) == title(replace(split_last(item_id, ":"), "_", " "))

(***************************************************************************)
(* RecipeDB.find_craftable_recipes (repository.py:47-97).                  *)
(***************************************************************************)
\* collections.Counter of a list: the distinct elements with their counts
Counter(l) ==
    [x \in Range(l) |-> Cardinality({i \in DOMAIN l : l[i] = x})]

\* Counter.__getitem__: a missing element counts 0
CounterGet(c, x) == IF x \in DOMAIN c THEN c[x] ELSE 0

\* Mutant of available_tag_items_count: counts the matching inventory ids
\* instead of summing their quantities.
available_tag_items_count_distinct(ing, available_counts) ==
    LET tag_name == split_last(ing, ":")
    IN  Cardinality({item \in DOMAIN available_counts : contains(tag_name, item)})

\* Mutant of available_tag_items_count: an inventory entry that is itself a
\* tag reference does not count for a tag.
available_tag_items_count_items_only(ing, available_counts) ==
    LET tag_name == split_last(ing, ":")
    IN  SumOver({item \in DOMAIN available_counts :
                    contains(tag_name, item) /\ ~startswith(item, <<"#">>)},
                available_counts)

\* repository.py:83-86
available_tag_items_count(ing, available_counts) ==
    LET tag_name == split_last(ing, ":")
    IN  SumOver({item \in DOMAIN available_counts : contains(tag_name, item)},
                available_counts)

\* Mutant of can_craft: `<=` where the code compares with `<`.
can_craft_off_by_one(recipe_counts, available_counts) ==
    \A ing \in DOMAIN recipe_counts :
        IF startswith(ing, <<"#">>)
        THEN ~(available_tag_items_count(ing, available_counts) <= recipe_counts[ing])
        ELSE ~(CounterGet(available_counts, ing) <= recipe_counts[ing])

\* Mutant of can_craft: the inventory must hold exactly the required count.
can_craft_exact_count(recipe_counts, available_counts) ==
    \A ing \in DOMAIN recipe_counts :
        IF startswith(ing, <<"#">>)
        THEN available_tag_items_count(ing, available_counts) = recipe_counts[ing]
        ELSE CounterGet(available_counts, ing) = recipe_counts[ing]

\* repository.py:78-93: the loop over recipe_counts.items()
can_craft(recipe_counts, available_counts) ==
    \A ing \in DOMAIN recipe_counts :
        IF startswith(ing, <<"#">>)
        THEN ~(available_tag_items_count(ing, available_counts) < recipe_counts[ing])
        ELSE ~(CounterGet(available_counts, ing) < recipe_counts[ing])

\* repository.py:58: the WHERE clause of the SELECT
HasIngredientsJson(row) ==
    row.ingredients_json # SQL_NULL /\ row.ingredients_json # <<"[", "]">>

\* Mutant of RowIsCraftable: exact_match is ignored.
RowIsCraftable_subset_only(row, available, exact) ==
    LET recipe_ingredient_list == json_loads(row.ingredients_json)
    IN  /\ recipe_ingredient_list # <<>>
        /\ can_craft(Counter(recipe_ingredient_list), Counter(available))

\* repository.py:65-95: the body of the loop for one row
RowIsCraftable(row, available, exact) ==
    LET recipe_ingredient_list == json_loads(row.ingredients_json)
        available_counts == Counter(available)
        recipe_counts == Counter(recipe_ingredient_list)
    IN  /\ recipe_ingredient_list # <<>>
        /\ IF exact THEN recipe_counts = available_counts
           ELSE can_craft(recipe_counts, available_counts)

\* Mutant of find_craftable_recipes: rows without ingredients are not left out.
find_craftable_recipes_keep_empty(rows, available, exact) ==
    SelectSeq(rows,
              LAMBDA row :
                  IF exact
                  THEN Counter(json_loads(row.ingredients_json)) = Counter(available)
                  ELSE can_craft(Counter(json_loads(row.ingredients_json)),
                                 Counter(available)))

\* repository.py:47-97
find_craftable_recipes(rows, available, exact) ==
    SelectSeq(SelectSeq(rows, HasIngredientsJson),
              LAMBDA row : RowIsCraftable(row, available, exact))

(***************************************************************************)
(* Parsed JSON values (what json.load returns), tagged by Python type.     *)
(***************************************************************************)
JStr(s) == [t |-> "str", s |-> s]
JNum(n) == [t |-> "num", n |-> n]
JNull == [t |-> "null"]
JList(l) == [t |-> "list", l |-> l]
JObj(o) == [t |-> "obj", o |-> o]
\* the content of a file that json.load cannot parse
JBad == [t |-> "bad"]

\* Python truth value of a parsed JSON value
Truthy(v) ==
    CASE v.t = "str" -> v.s # <<>>
      [] v.t = "num" -> v.n # 0
      [] v.t = "list" -> v.l # <<>>
      [] v.t = "obj" -> DOMAIN v.o # {}
      [] OTHER -> FALSE

\* `a or b`
Or(a, b) == IF Truthy(a) THEN a ELSE b

\* `key in d` on a dict
In(key, d) == key \in DOMAIN d.o

\* d.get(key, default); d.get(key) is Get(d, key, JNull)
Get(d, key, default) == IF In(key, d) THEN d.o[key] ELSE default

\* Mutant of get_all_ingredient_ids: a list contributes the identifiers of
\* all its elements.
RECURSIVE get_all_ingredient_ids_every_alternative(_)
get_all_ingredient_ids_every_alternative(ingredient) ==
    CASE ingredient.t = "list" ->
            IF ingredient.l # <<>>
            THEN get_all_ingredient_ids_every_alternative(ingredient.l[1])
                 \o get_all_ingredient_ids_every_alternative(JList(Tail(ingredient.l)))
            ELSE <<>>
      [] ingredient.t = "obj" ->
            LET item_id == Or(Get(ingredient, "item", JNull),
                              Get(ingredient, "tag", JNull))
            IN  IF Truthy(item_id) THEN <<item_id>> ELSE <<>>
      [] ingredient.t = "str" -> <<ingredient>>
      [] OTHER -> <<>>

\* builder.py:24-38
RECURSIVE get_all_ingredient_ids(_)
get_all_ingredient_ids(ingredient) ==
    CASE ingredient.t = "list" ->
            IF ingredient.l # <<>> THEN get_all_ingredient_ids(ingredient.l[1])
            ELSE <<>>
      [] ingredient.t = "obj" ->
            LET item_id == Or(Get(ingredient, "item", JNull),
                              Get(ingredient, "tag", JNull))
            IN  IF Truthy(item_id) THEN <<item_id>> ELSE <<>>
      [] ingredient.t = "str" -> <<ingredient>>
      [] OTHER -> <<>>

(***************************************************************************)
(* One iteration of the for loop of create_database (builder.py:64-142).   *)
(* Its outcome is one of                                                   *)
(*   insert  the INSERT ran (row: the values bound, without the rowid)     *)
(*   skip    a `continue` after an entry was appended to skipped_files     *)
(*   caught  a KeyError or TypeError reached the except clause             *)
(*   raise   another exception left the loop, and create_database          *)
(***************************************************************************)
NoRow == [result_id |-> <<>>, result_name |-> <<>>, result_count |-> JNull,
          recipe_type |-> JNull, ingredients_json |-> SQL_NULL,
          pattern_json |-> SQL_NULL]

Inserted(row) == [out |-> "insert", row |-> row, reason |-> <<>>, exc |-> "none"]
Skipped(reason) == [out |-> "skip", row |-> NoRow, reason |-> reason, exc |-> "none"]
Caught(e) == [out |-> "caught", row |-> NoRow, reason |-> <<>>, exc |-> e]
Raised(e) == [out |-> "raise", row |-> NoRow, reason |-> <<>>, exc |-> e]
\* a value shape this model does not cover; no modelled file produces it
Unmodelled == [out |-> "unmodelled", row |-> NoRow, reason |-> <<>>, exc |-> "none"]

NO_RESULT_ID ==
    <<":", " ", "N", "o", " ", "r", "e", "s", "u", "l", "t", "_", "i", "d",
      " ", "f", "o", "u", "n", "d", ".">>

NO_INGREDIENTS ==
    <<":", " ", "N", "o", " ", "i", "n", "g", "r", "e", "d", "i", "e", "n",
      "t", "s", " ", "f", "o", "u", "n", "d", ".">>

\* file_path.name
FileName(file) == file.stem \o DOT_JSON

\* the characters of the rows of a pattern, row after row
RECURSIVE Cells(_)
Cells(rows) ==
    IF rows = <<>> THEN <<>> ELSE Head(rows).s \o Cells(Tail(rows))

\* Mutant of KeyIngredients: a symbol of the key counts once, however many
\* cells of the pattern hold it.
RECURSIVE KeyIngredients_once_per_symbol(_, _)
KeyIngredients_once_per_symbol(cells, key) ==
    IF cells = <<>> THEN <<>>
    ELSE (IF /\ Head(cells) # " "
             /\ In(Head(cells), key)
             /\ Head(cells) \notin Range(Tail(cells))
          THEN get_all_ingredient_ids(key.o[Head(cells)])
          ELSE <<>>) \o KeyIngredients_once_per_symbol(Tail(cells), key)

\* builder.py:107-110 for a dict key and a list of str pattern
RECURSIVE KeyIngredients(_, _)
KeyIngredients(cells, key) ==
    IF cells = <<>> THEN <<>>
    ELSE (IF Head(cells) # " " /\ In(Head(cells), key)
          THEN get_all_ingredient_ids(key.o[Head(cells)])
          ELSE <<>>) \o KeyIngredients(Tail(cells), key)

\* builder.py:99-124: ingredients_flat, or the TypeError of lines 107-110
IngredientsFlat(data) ==
    LET field(f) == IF In(f, data) THEN get_all_ingredient_ids(data.o[f]) ELSE <<>>
        pattern == Get(data, "pattern", JNull)
        key == Get(data, "key", JNull)
        shaped == In("key", data) /\ In("pattern", data)
        patternOk == pattern.t = "list" /\ \A i \in DOMAIN pattern.l : pattern.l[i].t = "str"
        keyed ==
            IF ~shaped THEN <<>>
            ELSE IF patternOk /\ key.t = "obj" THEN KeyIngredients(Cells(pattern.l), key)
            ELSE <<>>
        \* `for row_pattern in 5`, `char in 5`: TypeError
        typeError ==
            /\ shaped
            /\ \/ pattern.t \in {"num", "null"}
               \/ /\ patternOk
                  /\ key.t \in {"num", "null"}
                  /\ \E c \in Range(Cells(pattern.l)) : c # " "
        covered ==
            ~shaped \/ typeError \/ (patternOk /\ key.t \in {"obj", "num", "null"})
    IN  [covered |-> covered,
         typeError |-> typeError,
         ids |-> field("ingredients") \o field("ingredient") \o keyed
                 \o field("base") \o field("addition") \o field("input")
                 \o field("material")]

\* recipe_type.startswith(prefix) on a str recipe_type
IsStartsWith(v, prefix) == startswith(v.s, prefix)

\* Mutant of ingredients_may_be_empty: every kind may have no ingredients.
ingredients_may_be_empty_for_any_kind(recipe_type) == recipe_type.t = "str"

\* builder.py:129-130: the kinds stored without an ingredient, for a str
\* recipe_type
ingredients_may_be_empty(recipe_type) ==
    \/ IsStartsWith(recipe_type, CRAFTING_SPECIAL_)
    \/ recipe_type = JStr(CRAFTING_DECORATED_POT)

\* Mutant of resolve_result: the file name stands for the result of every
\* recipe without one, whatever its kind.
resolve_result_proxy_for_any_kind(file) ==
    LET result == Get(file.data, "result", JNull)
        id == IF result.t = "obj"
              THEN Or(Get(result, "id", JNull), Get(result, "item", JNull))
              ELSE IF result.t = "str" THEN result ELSE JNull
    IN  IF Truthy(id)
        THEN [exc |-> "none", id |-> id,
              count |-> IF result.t = "obj" THEN Get(result, "count", JNum(1))
                        ELSE JNum(1)]
        ELSE [exc |-> "none", id |-> JStr(SPECIAL_ \o file.stem), count |-> JNum(1)]

\* builder.py:69-93: recipe_type, result_id and result_count of a file whose
\* top-level value is a dict; exc is the exception of line 91, if any
resolve_result(file) ==
    LET data == file.data
        recipe_type == Get(data, "type", JStr(UNKNOWN))
        result == Get(data, "result", JNull)
        special == [id |-> JStr(SPECIAL_ \o file.stem), count |-> JNum(1)]
        \* lines 76-87
        r1 == IF result.t = "obj"
              THEN [id |-> Or(Get(result, "id", JNull), Get(result, "item", JNull)),
                    count |-> Get(result, "count", JNum(1))]
              ELSE IF result.t = "str" THEN [id |-> result, count |-> JNum(1)]
              ELSE IF recipe_type = JStr(SMITHING_TRIM)
                      \/ recipe_type = JStr(CRAFTING_DECORATED_POT)
              THEN special
              ELSE [id |-> JNull, count |-> JNum(1)]
    IN
    \* line 91: recipe_type.startswith on a value that is no str
    IF ~Truthy(r1.id) /\ recipe_type.t # "str"
    THEN [exc |-> "AttributeError", id |-> r1.id, count |-> r1.count]
    ELSE IF ~Truthy(r1.id) /\ IsStartsWith(recipe_type, CRAFTING_SPECIAL_)
    THEN [exc |-> "none", id |-> special.id, count |-> special.count]
    ELSE [exc |-> "none", id |-> r1.id, count |-> r1.count]

ProcessUnit(file) ==
    LET data == file.data IN
    IF data.t = "bad" THEN Raised("JSONDecodeError")               \* line 66
    ELSE IF data.t # "obj" THEN Raised("AttributeError")           \* line 69
    ELSE
    LET recipe_type == Get(data, "type", JStr(UNKNOWN))
        resolved == resolve_result(file)
        result_id == resolved.id
        result_count == resolved.count
    IN
    IF resolved.exc # "none" THEN Raised(resolved.exc)
    ELSE
    IF ~Truthy(result_id) THEN Skipped(FileName(file) \o NO_RESULT_ID)   \* line 95
    ELSE
    LET flat == IngredientsFlat(data)
        ingredients_flat == flat.ids
        pattern == Get(data, "pattern", JNull)
        allStr == \A i \in DOMAIN ingredients_flat : ingredients_flat[i].t = "str"
        texts == [i \in DOMAIN ingredients_flat |-> ingredients_flat[i].s]
    IN
    IF ~flat.covered THEN Unmodelled
    ELSE IF flat.typeError THEN Caught("TypeError")
    \* line 129
    ELSE IF ingredients_flat = <<>> /\ recipe_type.t # "str" THEN Raised("AttributeError")
    ELSE IF ingredients_flat = <<>> /\ ~ingredients_may_be_empty(recipe_type)
    THEN Skipped(FileName(file) \o NO_INGREDIENTS)
    \* line 136: get_clean_name(result_id) calls result_id.split
    ELSE IF result_id.t # "str" THEN Raised("AttributeError")
    \* line 137: sorted() of a str next to a value that is no str
    ELSE IF ~allStr /\ (\E i \in DOMAIN ingredients_flat : ingredients_flat[i].t = "str")
    THEN Caught("TypeError")
    ELSE IF ~allStr THEN Unmodelled
    ELSE IF Truthy(pattern) /\ ~(pattern.t = "list" /\ \A i \in DOMAIN pattern.l : pattern.l[i].t = "str")
    THEN Unmodelled
    \* line 134: binding the parameters; result_count and recipe_type are NOT NULL
    ELSE IF result_count.t = "null" \/ recipe_type.t = "null" THEN Raised("IntegrityError")
    ELSE IF result_count.t \in {"list", "obj"} \/ recipe_type.t \in {"list", "obj"}
    THEN Raised("ProgrammingError")
    ELSE IF result_count.t # "num" \/ recipe_type.t # "str" THEN Unmodelled
    ELSE Inserted([result_id |-> result_id.s,
                   result_name |-> get_clean_name(result_id.s),
                   result_count |-> result_count,
                   recipe_type |-> recipe_type,
                   ingredients_json |-> json_dumps(sorted(texts)),
                   pattern_json |-> IF Truthy(pattern)
                                    THEN json_dumps([i \in DOMAIN pattern.l |-> pattern.l[i].s])
                                    ELSE SQL_NULL])

(***************************************************************************)
(* The modelled recipe files.  A directory holds each file at most once;   *)
(* dir lists the names of its files in the order glob yields them.         *)
(***************************************************************************)
ChestFile ==
    [stem |-> <<"c", "h", "e", "s", "t">>,
     data |-> JObj([type |-> JStr(CRAFTING_SHAPED),
                    key |-> JObj([x \in {"#"} |-> JObj([tag |-> JStr(TAG_PLANKS)])]),
                    pattern |-> JList(<<JStr(<<"#", "#", "#">>),
                                        JStr(<<"#", " ", "#">>),
                                        JStr(<<"#", "#", "#">>)>>),
                    result |-> JObj([id |-> JStr(CHEST), count |-> JNum(1)])])]

LeverFile ==
    [stem |-> <<"l", "e", "v", "e", "r">>,
     data |-> JObj([type |-> JStr(CRAFTING_SHAPED),
                    key |-> JObj([x \in {"#", "X"} |->
                                    IF x = "#" THEN JObj([item |-> JStr(COBBLESTONE)])
                                    ELSE JObj([item |-> JStr(STICK)])]),
                    pattern |-> JList(<<JStr(<<"X">>), JStr(<<"#">>)>>),
                    result |-> JObj([id |-> JStr(LEVER)])])]

\* a special recipe: no result, no ingredients
ArmorDyeFile ==
    [stem |-> <<"a", "r", "m", "o", "r", "_", "d", "y", "e">>,
     data |-> JObj([type |-> JStr(CRAFTING_SPECIAL_ARMORDYE)])]

\* a file that is not JSON
BrokenFile ==
    [stem |-> <<"b", "r", "o", "k", "e", "n">>, data |-> JBad]

\* a file whose top-level value is a list
ListFile ==
    [stem |-> <<"l", "i", "s", "t">>,
     data |-> JList(<<JObj([type |-> JStr(CRAFTING_SHAPELESS)])>>)]

\* a result id that is a number
NumResultFile ==
    [stem |-> <<"n", "u", "m">>,
     data |-> JObj([type |-> JStr(CRAFTING_SHAPELESS),
                    ingredients |-> JList(<<JObj([item |-> JStr(STICK)])>>),
                    result |-> JObj([id |-> JNum(5)])])]

\* an ingredient id that is a number, next to one that is a str
MixedFile ==
    [stem |-> <<"m", "i", "x", "e", "d">>,
     data |-> JObj([type |-> JStr(SMITHING_TRIM),
                    base |-> JObj([item |-> JNum(5)]),
                    addition |-> JObj([item |-> JStr(STICK)]),
                    result |-> JObj([id |-> JStr(TORCH)])])]

\* a well-formed recipe without a result
NoResultFile ==
    [stem |-> <<"n", "o", "n", "e">>,
     data |-> JObj([type |-> JStr(CRAFTING_SHAPELESS),
                    ingredients |-> JList(<<JObj([item |-> JStr(STICK)])>>)])]

\* the lever recipe with the rows of its pattern swapped
LeverFlippedFile ==
    [stem |-> <<"l", "e", "v", "e", "r", "_", "f", "l", "i", "p", "p", "e", "d">>,
     data |-> JObj([type |-> JStr(CRAFTING_SHAPED),
                    key |-> JObj([x \in {"#", "X"} |->
                                    IF x = "#" THEN JObj([item |-> JStr(COBBLESTONE)])
                                    ELSE JObj([item |-> JStr(STICK)])]),
                    pattern |-> JList(<<JStr(<<"#">>), JStr(<<"X">>)>>),
                    result |-> JObj([id |-> JStr(LEVER)])])]

FileNames ==
    {"chest", "lever", "lever_flipped", "armor_dye", "broken", "list", "num",
     "mixed", "none"}

(***************************************************************************)
(* A family of recipe files: every combination of a declaration of the     *)
(* kind, of the result and of the ingredients, as the fields of one JSON   *)
(* object.  The file of the combination <<i, j, k>> is named by the i-th,  *)
(* j-th and k-th letter.                                                   *)
(***************************************************************************)
Letters ==
    <<"a", "b", "c", "d", "e", "f", "g", "h", "i", "j", "k", "l", "m", "n",
      "o", "p">>

NoField == [f \in {} |-> JNull]

Field(f, v) == [x \in {f} |-> v]

Item(id) == JObj([item |-> JStr(id)])

Tag(id) == JObj([tag |-> JStr(id)])

\* data["type"]
KindFields ==
    <<Field("type", JStr(CRAFTING_SHAPED)),
      Field("type", JStr(CRAFTING_SHAPELESS)),
      Field("type", JStr(SMITHING_TRIM)),
      Field("type", JStr(CRAFTING_DECORATED_POT)),
      Field("type", JStr(CRAFTING_SPECIAL_ARMORDYE)),
      NoField>>

\* data["result"]
ResultFields ==
    <<NoField,
      Field("result", JObj([id |-> JStr(TORCH)])),
      Field("result", JObj([item |-> JStr(TORCH), count |-> JNum(4)])),
      Field("result", JObj([id |-> JStr(TORCH), count |-> JNum(0)])),
      Field("result", JObj([count |-> JNum(2)])),
      Field("result", JStr(TORCH))>>

LeverKey ==
    JObj([x \in {"#", "X"} |-> IF x = "#" THEN Item(COBBLESTONE) ELSE Item(STICK)])

\* the fields the ingredients are read from (builder.py:100-124)
IngredientFields ==
    <<NoField,
      Field("ingredients", JList(<<>>)),
      Field("ingredients", JList(<<Item(STICK)>>)),
      Field("ingredients", JList(<<Item(STICK), Item(OAK_PLANKS), Item(STICK)>>)),
      Field("ingredients", JList(<<JList(<<Item(OAK_PLANKS), Item(BIRCH_PLANKS)>>),
                                   Tag(TAG_PLANKS)>>)),
      Field("ingredient", Item(STICK)),
      Field("ingredient", JList(<<Item(OAK_PLANKS), Item(BIRCH_PLANKS)>>)),
      Field("base", Item(STICK)) @@ Field("addition", Item(COBBLESTONE)),
      Field("input", Tag(TAG_PLANKS)) @@ Field("material", JStr(STICK)),
      Field("key", JObj(Field("#", Tag(TAG_PLANKS))))
          @@ Field("pattern", JList(<<JStr(<<"#", "#", "#">>),
                                      JStr(<<"#", " ", "#">>),
                                      JStr(<<"#", "#", "#">>)>>)),
      Field("key", LeverKey)
          @@ Field("pattern", JList(<<JStr(<<"X">>), JStr(<<"#">>)>>)),
      Field("key", LeverKey)
          @@ Field("pattern", JList(<<JStr(<<"#">>), JStr(<<"X">>)>>)),
      Field("key", JObj(Field("#", JList(<<Item(OAK_PLANKS), Item(BIRCH_PLANKS)>>))
                        @@ Field("S", Item(STICK))))
          @@ Field("pattern", JList(<<JStr(<<"#", "Y">>), JStr(<<"#", " ">>)>>)),
      Field("base", JObj([item |-> JNum(5)])) @@ Field("addition", Item(STICK)),
      Field("ingredient", JList(<<>>)) @@ Field("base", Item(STICK)),
      Field("ingredient", JList(<<JList(<<Item(BIRCH_PLANKS), Item(OAK_PLANKS)>>),
                                  Item(STICK)>>))>>

UnitIndex ==
    (DOMAIN KindFields) \X (DOMAIN ResultFields) \X (DOMAIN IngredientFields)

UnitName(x) == "u" \o Letters[x[1]] \o Letters[x[2]] \o Letters[x[3]]

Unit(x) ==
    [stem |-> <<"u", Letters[x[1]], Letters[x[2]], Letters[x[3]]>>,
     data |-> JObj(KindFields[x[1]] @@ ResultFields[x[2]] @@ IngredientFields[x[3]])]

UnitNames == {UnitName(x) : x \in UnitIndex}

File(name) ==
    CASE name = "chest" -> ChestFile
      [] name = "lever" -> LeverFile
      [] name = "lever_flipped" -> LeverFlippedFile
      [] name = "armor_dye" -> ArmorDyeFile
      [] name = "broken" -> BrokenFile
      [] name = "list" -> ListFile
      [] name = "num" -> NumResultFile
      [] name = "mixed" -> MixedFile
      [] name = "none" -> NoResultFile
      [] OTHER -> Unit(CHOOSE x \in UnitIndex : UnitName(x) = name)

\* the files by name, computed once
Files == [name \in FileNames \cup UnitNames |-> File(name)]

\* ProcessUnit of every modelled file, computed once
Outcome == [name \in DOMAIN Files |-> ProcessUnit(Files[name])]

\* the directories: up to MaxUnits distinct files, in any glob order
Directories ==
    {d \in UNION {[1..n -> FileNames] : n \in 0..MaxUnits} :
        \A i, j \in DOMAIN d : i # j => d[i] # d[j]}

(***************************************************************************)
(* The database file: whether table recipes exists, and its committed      *)
(* rows.  A row is the values of an INSERT with the rowid SQLite assigns.  *)
(***************************************************************************)
WithId(row, id) ==
    [id |-> id, result_id |-> row.result_id, result_name |-> row.result_name,
     result_count |-> row.result_count, recipe_type |-> row.recipe_type,
     ingredients_json |-> row.ingredients_json, pattern_json |-> row.pattern_json]

\* INTEGER PRIMARY KEY: one more than the largest rowid of the table
NextId(rows) == Len(rows) + 1

NoTable == [exists |-> FALSE, rows |-> <<>>]

\* the store an earlier build left: one torch recipe
OldRow ==
    WithId([result_id |-> TORCH, result_name |-> get_clean_name(TORCH),
            result_count |-> JNum(4), recipe_type |-> JStr(CRAFTING_SHAPED),
            ingredients_json |-> json_dumps(<<STICK>>),
            pattern_json |-> SQL_NULL], 1)

OldTable == [exists |-> TRUE, rows |-> <<OldRow>>]

NoExc == "none"

\* repository.py:125-129; "no such table" is an sqlite3.OperationalError
count_recipes(d) ==
    IF d.exists THEN [err |-> FALSE, n |-> Len(d.rows)] ELSE [err |-> TRUE, n |-> 0]

\* SELECT * FROM recipes on the reader's connection: the committed rows
SelectAll(d) ==
    IF d.exists THEN [err |-> FALSE, rows |-> d.rows] ELSE [err |-> TRUE, rows |-> <<>>]

(***************************************************************************)
(* create_database (builder.py:43-151), one action per statement.          *)
(***************************************************************************)
NoLookup == [op |-> "none", arg |-> <<>>]

\* chat_service.py:19: no session
NoSessions == [player \in {} |-> 0]

\* no chat call in progress
NoCall == [player |-> "", chat |-> 0, start |-> 0, before |-> NoSessions, created |-> 0]

\* a response without parts
NoParts == [parts |-> <<>>]

NoAnswer == [t |-> "none", text |-> 0]

\* no chat call has ended
NoEnded ==
    [outcome |-> "none", player |-> "", chat |-> 0, start |-> 0, end |-> 0,
     before |-> NoSessions, after |-> NoSessions, created |-> 0]

\* SmartGeminiBackend after __init__ (chat_service.py:14-19), no call made
ChatIdle ==
    /\ now = 0
    /\ ticks = 0
    /\ sessions = NoSessions
    /\ created = 0
    /\ calls = 0
    /\ call = NoCall
    /\ tpc = "idle"
    /\ iter = 0
    /\ response = NoParts
    /\ responses = <<>>
    /\ tool_calls = 0
    /\ answer = NoAnswer
    /\ ended = NoEnded

QueryIdle ==
    /\ available_ingredients = <<>>
    /\ exact_match = FALSE
    /\ craftable_recipes = <<>>
    /\ qpc = "ready"
    /\ lookup = NoLookup
    /\ found = <<>>
    /\ raised = NoExc

Init ==
    /\ dir \in Directories
    /\ db \in {NoTable, OldTable}
    /\ tx = <<>>
    /\ pc = "idle"
    /\ idx = 1
    /\ processed_files = 0
    /\ skipped_files = <<>>
    /\ exc = NoExc
    /\ runs = 0
    /\ prev = db
    /\ lastDone = <<>>
    /\ seen = <<>>
    /\ QueryIdle
    /\ ChatIdle

\* builder.py:45-46: a call of create_database starts
Connect ==
    /\ pc \in {"idle", "done", "failed"}
    /\ runs < MaxRuns
    /\ runs' = runs + 1
    /\ pc' = "drop"
    /\ prev' = db
    /\ lastDone' = IF pc = "done" THEN <<db.rows>> ELSE lastDone
    /\ exc' = NoExc
    /\ seen' = <<>>
    /\ tx' = <<>>
    /\ idx' = 1
    /\ processed_files' = 0
    /\ skipped_files' = <<>>
    /\ UNCHANGED <<dir, db>>
    /\ UNCHANGED <<queryVars, chatVars>>

\* Mutant of DropTable: the table is not dropped (CREATE TABLE IF NOT EXISTS
\* without the DROP), so a run adds to the rows of the run before.
DropTable_skipped ==
    /\ pc = "drop"
    /\ pc' = "create"
    /\ UNCHANGED <<dir, db, tx, idx, processed_files, skipped_files, exc, runs,
                   prev, lastDone, seen>>
    /\ UNCHANGED <<queryVars, chatVars>>

\* builder.py:48.  No transaction is open (sqlite3 opens one before INSERT,
\* UPDATE, DELETE and REPLACE only), so the DROP is committed at once.
DropTable ==
    /\ pc = "drop"
    /\ db' = NoTable
    /\ pc' = "create"
    /\ UNCHANGED <<dir, tx, idx, processed_files, skipped_files, exc, runs,
                   prev, lastDone, seen>>
    /\ UNCHANGED <<queryVars, chatVars>>

\* builder.py:49-59, committed at once like the DROP: the table the DROP
\* removed exists again, without a row
CreateTable ==
    /\ pc = "create"
    /\ db' = [exists |-> TRUE, rows |-> db.rows]
    /\ pc' = "index"
    /\ UNCHANGED <<dir, tx, idx, processed_files, skipped_files, exc, runs,
                   prev, lastDone, seen>>
    /\ UNCHANGED <<queryVars, chatVars>>

\* builder.py:60-63
CreateIndex ==
    /\ pc = "index"
    /\ pc' = "loop"
    /\ idx' = 1
    /\ processed_files' = 0
    /\ skipped_files' = <<>>
    /\ UNCHANGED <<dir, db, tx, exc, runs, prev, lastDone, seen>>
    /\ UNCHANGED <<queryVars, chatVars>>

\* an exception leaves create_database: its connection is closed without a
\* commit, which rolls the open transaction back
Abort(e) ==
    /\ pc' = "failed"
    /\ exc' = e
    /\ tx' = <<>>

\* builder.py:64-142: one iteration of the for loop
LoopStep ==
    /\ pc = "loop"
    /\ idx <= Len(dir)
    /\ LET o == Outcome[dir[idx]]
       IN  \/ /\ o.out = "insert"
              /\ tx' = Append(tx, WithId(o.row, NextId(db.rows \o tx)))
              /\ processed_files' = processed_files + 1
              /\ idx' = idx + 1
              /\ UNCHANGED <<pc, exc, skipped_files>>
           \/ /\ o.out = "skip"
              /\ skipped_files' = Append(skipped_files, o.reason)
              /\ idx' = idx + 1
              /\ UNCHANGED <<pc, exc, tx, processed_files>>
           \/ /\ o.out = "caught"
              /\ idx' = idx + 1
              /\ UNCHANGED <<pc, exc, tx, processed_files, skipped_files>>
           \/ /\ o.out = "raise"
              /\ Abort(o.exc)
              /\ UNCHANGED <<idx, processed_files, skipped_files>>
    /\ UNCHANGED <<dir, db, runs, prev, lastDone, seen>>
    /\ UNCHANGED <<queryVars, chatVars>>

\* Mutant of Commit: the connection is closed without con.commit().
Commit_missing ==
    /\ pc = "loop"
    /\ idx > Len(dir)
    /\ tx' = <<>>
    /\ pc' = "done"
    /\ UNCHANGED <<dir, db, idx, processed_files, skipped_files, exc, runs, prev,
                   lastDone, seen>>
    /\ UNCHANGED <<queryVars, chatVars>>

\* builder.py:144-145: the loop is over; commit and close
Commit ==
    /\ pc = "loop"
    /\ idx > Len(dir)
    /\ db' = [exists |-> db.exists, rows |-> db.rows \o tx]
    /\ tx' = <<>>
    /\ pc' = "done"
    /\ UNCHANGED <<dir, idx, processed_files, skipped_files, exc, runs, prev,
                   lastDone, seen>>
    /\ UNCHANGED <<queryVars, chatVars>>

\* the storage engine fails under a statement of the run (spec 7: store
\* unavailable): sqlite3 raises an OperationalError out of cur.execute or
\* con.commit
StoreFailure ==
    /\ pc \in {"drop", "create", "index", "loop"}
    /\ Abort("OperationalError")
    /\ UNCHANGED <<dir, db, idx, processed_files, skipped_files, runs, prev,
                   lastDone, seen>>
    /\ UNCHANGED <<queryVars, chatVars>>

\* a RecipeDB on its own connection (repository.py:7-12) reads the table
Read ==
    /\ pc # "idle"
    /\ seen' = <<[at |-> pc, got |-> SelectAll(db)]>>
    /\ UNCHANGED <<dir, db, tx, pc, idx, processed_files, skipped_files, exc,
                   runs, prev, lastDone>>
    /\ UNCHANGED <<queryVars, chatVars>>

Next ==
    \/ Connect
    \/ DropTable
    \/ CreateTable
    \/ CreateIndex
    \/ LoopStep
    \/ Commit
    \/ StoreFailure
    \/ Read

Spec == Init /\ [][Next]_vars

\* create_database on a directory that holds one file, any of the modelled
\* ones, over the store of an earlier build
InitUnit ==
    /\ dir \in {<<name>> : name \in DOMAIN Files}
    /\ db = OldTable
    /\ tx = <<>>
    /\ pc = "idle"
    /\ idx = 1
    /\ processed_files = 0
    /\ skipped_files = <<>>
    /\ exc = NoExc
    /\ runs = 0
    /\ prev = db
    /\ lastDone = <<>>
    /\ seen = <<>>
    /\ QueryIdle
    /\ ChatIdle

SpecUnit == InitUnit /\ [][Next]_vars

(***************************************************************************)
(* Properties of create_database, checked under Spec.                      *)
(***************************************************************************)
\* the positions of a run between its first and its last statement
Running == {"drop", "create", "index", "loop"}

\* the files of dir that yield a record when processed on their own
Ingestible == {i \in DOMAIN dir : Outcome[dir[i]].out = "insert"}

\* the complete record set of a build of dir: a record for every ingestible
\* file, in directory order, numbered from 1
RECURSIVE Derived(_, _)
Derived(d, rows) ==
    IF d = <<>> THEN rows
    ELSE Derived(Tail(d),
                 IF Outcome[Head(d)].out = "insert"
                 THEN Append(rows, WithId(Outcome[Head(d)].row, Len(rows) + 1))
                 ELSE rows)

NewRows == Derived(dir, <<>>)

\* an exception of the run that comes from the content of a file
UnitFailure == pc = "failed" /\ exc # "OperationalError"

\* C5: create_database never raises on a malformed recipe unit: whatever a
\* file holds, processing it ends with a record inserted or the file skipped
\* and no exception leaves create_database (only a failure of the storage
\* engine does).
C5_MalformedUnitNeverRaises == ~UnitFailure

\* C6: a malformed unit does not block the rest of the batch: when
\* create_database is over, the store holds a record for every file that is
\* ingestible on its own, at least n - k records for n files of which k are
\* not.
C6_MalformedUnitDoesNotBlockBatch ==
    (pc = "done" \/ UnitFailure) =>
        /\ db.exists
        /\ Len(db.rows) >= Len(dir) - Cardinality(DOMAIN dir \ Ingestible)

\* C7: rebuild is all-or-nothing: after a run that failed, the store holds
\* exactly the records it held when the run started.
C7_FailedRunLeavesStoreUntouched ==
    pc = "failed" => (db.rows = prev.rows /\ (prev.exists => db.exists))

\* C8: a reader that queries between two steps of a run gets the complete
\* previous record set or the complete new record set, never a missing,
\* an empty or a partly filled table.
C8_ReaderSeesOldOrNewStore ==
    \A i \in DOMAIN seen :
        seen[i].at \in Running =>
            \/ seen[i].got = SelectAll(prev)
            \/ seen[i].got = [err |-> FALSE, rows |-> NewRows]

\* C9: after create_database completes, the store holds exactly the records
\* derived from the files of that run and none of the records it held
\* before, and count_recipes returns the number of files of the run that
\* were neither skipped nor malformed.
C9_CompletedRunReplacesStore ==
    pc = "done" =>
        /\ db.exists
        /\ db.rows = NewRows
        /\ \A i \in DOMAIN prev.rows :
              (\A j \in DOMAIN NewRows : NewRows[j] # prev.rows[i]) =>
                  \A j \in DOMAIN db.rows : db.rows[j] # prev.rows[i]
        /\ count_recipes(db) =
              [err |-> FALSE,
               n |-> Len(dir) - Cardinality({i \in DOMAIN dir :
                                        Outcome[dir[i]].out \in {"skip", "caught", "raise"}})]
        /\ count_recipes(db).n = processed_files

\* C9 witness: a completed run over a store that held the torch recipe; one
\* file was ingested and one skipped.
C9_Witness ==
    /\ pc = "done"
    /\ prev = OldTable
    /\ Len(dir) = 2
    /\ Len(db.rows) = 1
    /\ Len(skipped_files) = 1

\* what C10 compares of a record: everything but the rowid
Content(row) ==
    [result_id |-> row.result_id,
     result_name |-> row.result_name,
     result_count |-> row.result_count,
     recipe_type |-> row.recipe_type,
     ingredients |-> IngredientsOf(row),
     pattern |-> IF row.pattern_json = SQL_NULL THEN SQL_NULL
                 ELSE json_loads(row.pattern_json)]

\* C10: ingestion is idempotent: a completed run over the directory of an
\* earlier completed run leaves the same number of records and, record for
\* record, the same result id, display name, result count, kind, ingredient
\* list and pattern.
C10_IngestionIdempotent ==
    (pc = "done" /\ lastDone # <<>>) =>
        /\ Len(db.rows) = Len(lastDone[1])
        /\ \A i \in DOMAIN db.rows : Content(db.rows[i]) = Content(lastDone[1][i])

\* C10 witness: the second completed run over a directory of two recipes.
C10_Witness ==
    /\ pc = "done"
    /\ lastDone # <<>>
    /\ Len(lastDone[1]) = 2
    /\ Len(db.rows) = 2

(***************************************************************************)
(* The queries of RecipeDB on a committed store.                           *)
(***************************************************************************)
\* the identifiers a stored ingredient list is drawn from
IngredientPool == {OAK_PLANKS, STICK, TAG_PLANKS}

\* the identifiers an inventory is drawn from
ItemPool == {OAK_PLANKS, BIRCH_PLANKS, STICK, TAG_PLANKS}

SortedLists(pool, n) ==
    {l \in UNION {[1..k -> pool] : k \in 0..n} : sorted(l) = l}

\* the row create_database stores for a recipe with these ingredients: a
\* special recipe when it has none (the only kinds stored without any)
QueryRow(ingredients) ==
    IF ingredients = <<>>
    THEN [result_id |-> SPECIAL_ \o ArmorDyeFile.stem,
          result_name |-> get_clean_name(SPECIAL_ \o ArmorDyeFile.stem),
          result_count |-> JNum(1),
          recipe_type |-> JStr(CRAFTING_SPECIAL_ARMORDYE),
          ingredients_json |-> json_dumps(ingredients),
          pattern_json |-> SQL_NULL]
    ELSE [result_id |-> CHEST,
          result_name |-> get_clean_name(CHEST),
          result_count |-> JNum(1),
          recipe_type |-> JStr(CRAFTING_SHAPELESS),
          ingredients_json |-> json_dumps(ingredients),
          pattern_json |-> SQL_NULL]

QueryRows == {QueryRow(l) : l \in SortedLists(IngredientPool, MaxIng)}

\* a set of rows as a table: in some order, with the rowids 1, 2, ...
RECURSIVE Table(_, _)
Table(rowset, rows) ==
    IF rowset = {} THEN rows
    ELSE LET r == CHOOSE x \in rowset : TRUE
         IN  Table(rowset \ {r}, Append(rows, WithId(r, NextId(rows))))

\* the committed stores the queries run on: one recipe for every ingredient
\* list of up to MaxIng entries, or a table without rows
QueryStores ==
    {[exists |-> TRUE, rows |-> Table(QueryRows, <<>>)],
     [exists |-> TRUE, rows |-> <<>>]}

\* the inventories: Counter does not depend on the order of the list, so
\* one list stands for all its permutations
Inventories == SortedLists(ItemPool, MaxInv)

InitQuery ==
    /\ db \in QueryStores
    /\ dir = <<>>
    /\ tx = <<>>
    /\ pc = "idle"
    /\ idx = 1
    /\ processed_files = 0
    /\ skipped_files = <<>>
    /\ exc = NoExc
    /\ runs = 0
    /\ prev = db
    /\ lastDone = <<>>
    /\ seen = <<>>
    /\ QueryIdle
    /\ ChatIdle

\* a call of RecipeDB.find_craftable_recipes
FindCraftable ==
    /\ qpc = "ready"
    /\ db.exists
    /\ \E inv \in Inventories, exact \in BOOLEAN :
          /\ available_ingredients' = inv
          /\ exact_match' = exact
          /\ craftable_recipes' = find_craftable_recipes(db.rows, inv, exact)
    /\ qpc' = "done"
    /\ UNCHANGED <<db, lookup, found, raised>>
    /\ UNCHANGED <<builderVars, chatVars>>

NextQuery == FindCraftable

SpecQuery == InitQuery /\ [][NextQuery]_vars

(***************************************************************************)
(* Properties of find_craftable_recipes, checked under SpecQuery.          *)
(***************************************************************************)
\* number of times x occurs in the list l
Occurrences(l, x) == Cardinality({i \in DOMAIN l : l[i] = x})

IsTagReference(id) == id # <<>> /\ Head(id) = "#"

\* the text after the last ':' of a tag reference
LocalName(tag) ==
    IF \E i \in DOMAIN tag : tag[i] = ":"
    THEN LET last == CHOOSE i \in DOMAIN tag :
                        tag[i] = ":" /\ \A j \in (i + 1)..Len(tag) : tag[j] # ":"
         IN  SubSeq(tag, last + 1, Len(tag))
    ELSE tag

\* the row is among the rows the last query returned
Returned(row) == \E i \in DOMAIN craftable_recipes : craftable_recipes[i] = row

\* the inventory holds the concrete id at least as often as the list l
EnoughOf(id, l) ==
    Occurrences(available_ingredients, id) >= Occurrences(l, id)

\* the inventory items whose identifier contains the tag's local name are
\* at least as many as the occurrences of the tag in the list l
EnoughForTag(tag, l) ==
    Cardinality({i \in DOMAIN available_ingredients :
                    contains(LocalName(tag), available_ingredients[i])})
        >= Occurrences(l, tag)

SubsetQueryDone == qpc = "done" /\ ~exact_match
ExactQueryDone == qpc = "done" /\ exact_match

\* C1: with exact_match=False, a stored record with a non-empty ingredient
\* list of concrete item ids only is returned if and only if the inventory
\* holds every distinct ingredient id at least as many times as the list.
C1_ConcreteSubsetMatch ==
    SubsetQueryDone =>
        \A i \in DOMAIN db.rows :
            LET l == IngredientsOf(db.rows[i])
            IN  (l # <<>> /\ \A k \in DOMAIN l : ~IsTagReference(l[k])) =>
                    (Returned(db.rows[i]) <=> \A k \in DOMAIN l : EnoughOf(l[k], l))

\* C1 witness: 3 oak planks do not satisfy a record that needs 4, which the
\* store holds and the query leaves out.
C1_Witness ==
    /\ SubsetQueryDone
    /\ available_ingredients = <<OAK_PLANKS, OAK_PLANKS, OAK_PLANKS>>
    /\ \E i \in DOMAIN db.rows :
          /\ IngredientsOf(db.rows[i]) = <<OAK_PLANKS, OAK_PLANKS, OAK_PLANKS, OAK_PLANKS>>
          /\ ~Returned(db.rows[i])
    /\ \E i \in DOMAIN db.rows :
          /\ IngredientsOf(db.rows[i]) = <<OAK_PLANKS, OAK_PLANKS, OAK_PLANKS>>
          /\ Returned(db.rows[i])

\* C2: with exact_match=False, a tag reference required c times is satisfied
\* iff the inventory items whose identifier contains the tag's local name
\* number at least c (a concrete id iff the inventory holds it at least as
\* often), and a record with a non-empty ingredient list is returned iff
\* every one of its distinct entries is satisfied.
C2_TagSubsetMatch ==
    SubsetQueryDone =>
        \A i \in DOMAIN db.rows :
            LET l == IngredientsOf(db.rows[i])
            IN  l # <<>> =>
                    (Returned(db.rows[i]) <=>
                        \A k \in DOMAIN l :
                            IF IsTagReference(l[k]) THEN EnoughForTag(l[k], l)
                            ELSE EnoughOf(l[k], l))

\* C2 witness: two planks of different wood satisfy a record that needs the
\* planks tag twice, and do not satisfy one that needs it three times.
C2_Witness ==
    /\ SubsetQueryDone
    /\ available_ingredients = <<BIRCH_PLANKS, OAK_PLANKS>>
    /\ \E i \in DOMAIN db.rows :
          /\ IngredientsOf(db.rows[i]) = <<TAG_PLANKS, TAG_PLANKS>>
          /\ Returned(db.rows[i])
    /\ \E i \in DOMAIN db.rows :
          /\ IngredientsOf(db.rows[i]) = <<TAG_PLANKS, TAG_PLANKS, TAG_PLANKS>>
          /\ ~Returned(db.rows[i])

\* C3: with exact_match=True the rows returned are exactly the stored rows
\* with a non-empty ingredient list in which every identifier occurs as many
\* times as in the inventory, and the inventory holds no other identifier.
C3_ExactMatch ==
    ExactQueryDone =>
        \A i \in DOMAIN db.rows :
            LET l == IngredientsOf(db.rows[i])
            IN  Returned(db.rows[i]) <=>
                    /\ l # <<>>
                    /\ \A x \in Range(l) \cup Range(available_ingredients) :
                          Occurrences(l, x) = Occurrences(available_ingredients, x)

\* C3 witness: for one stick and one oak plank, the record that needs
\* exactly these is returned, and neither the record that needs one stick
\* nor the one that needs a second stick.
C3_Witness ==
    /\ ExactQueryDone
    /\ available_ingredients = <<OAK_PLANKS, STICK>>
    /\ Len(craftable_recipes) = 1
    /\ IngredientsOf(craftable_recipes[1]) = <<OAK_PLANKS, STICK>>
    /\ \E i \in DOMAIN db.rows : IngredientsOf(db.rows[i]) = <<STICK>>
    /\ \E i \in DOMAIN db.rows : IngredientsOf(db.rows[i]) = <<OAK_PLANKS, STICK, STICK>>

EmptyInventoryQueryDone == qpc = "done" /\ available_ingredients = <<>>

\* the stored rows whose ingredient list is empty
RowsWithoutIngredients ==
    SelectSeq(db.rows, LAMBDA row : IngredientsOf(row) = <<>>)

\* C4 as claimed: with an empty inventory the query returns the stored
\* records that require zero ingredients and no other record.
C4_EmptyInventoryReturnsZeroIngredientRecords ==
    EmptyInventoryQueryDone => craftable_recipes = RowsWithoutIngredients

\* C4 as amended: with an empty inventory the query returns no record at
\* all; the stored records with an empty ingredient list are left out like
\* the records that require one or more ingredients.
C4_EmptyInventoryReturnsNothing ==
    EmptyInventoryQueryDone => craftable_recipes = <<>>

\* C4 witness: the store holds a record without ingredients and records
\* with ingredients, and the query with an empty inventory is done.
C4_Witness ==
    /\ EmptyInventoryQueryDone
    /\ RowsWithoutIngredients # <<>>
    /\ Len(RowsWithoutIngredients) < Len(db.rows)
    /\ craftable_recipes = <<>>

(***************************************************************************)
(* Properties of the loop body of create_database, checked under SpecUnit  *)
(* on the runs over one file of the family.                                *)
(***************************************************************************)
\* the rows of the table, the uncommitted ones of the writer included
AllRows == db.rows \o tx

\* a run over one file of the family has completed
FamilyRunDone == pc = "done" /\ Len(dir) = 1 /\ dir[1] \in UnitNames

TheFile == Files[dir[1]]

KindOf(file) == Get(file.data, "type", JStr(UNKNOWN))

IsDynamicResultKind(file) ==
    KindOf(file) \in {JStr(SMITHING_TRIM), JStr(CRAFTING_DECORATED_POT)}

HasSpecialCraftingPrefix(file) == startswith(KindOf(file).s, CRAFTING_SPECIAL_)

SkippedFor(reason) == skipped_files = <<FileName(TheFile) \o reason>>

\* the result of a file by the five rules, first match wins; rule 5 is the
\* skip
PriorityResult(file) ==
    LET result == Get(file.data, "result", JNull)
        synthesized == SPECIAL_ \o file.stem
    IN  IF result.t = "obj" /\ (In("id", result) \/ In("item", result))
        THEN [rule |-> 1,
              id |-> (IF In("id", result) THEN result.o["id"] ELSE result.o["item"]).s,
              count |-> Get(result, "count", JNum(1))]
        ELSE IF result.t = "str"
        THEN [rule |-> 2, id |-> result.s, count |-> JNum(1)]
        ELSE IF IsDynamicResultKind(file)
        THEN [rule |-> 3, id |-> synthesized, count |-> JNum(1)]
        ELSE IF HasSpecialCraftingPrefix(file)
        THEN [rule |-> 4, id |-> synthesized, count |-> JNum(1)]
        ELSE [rule |-> 5, id |-> <<>>, count |-> JNull]

\* C11: the result of a unit follows the five rules in their order, first
\* match wins: a unit the rules give no id is skipped with the reason "no
\* result id"; any other unit is not skipped for that reason and its record
\* carries the id and the count of the first rule that matches, so a unit
\* of a dynamic-result kind without an id by rules 1 and 2 is stored under
\* the synthesized id.
C11_ResultResolutionPriority ==
    FamilyRunDone =>
        LET r == PriorityResult(TheFile)
        IN  IF r.rule = 5
            THEN db.rows = <<>> /\ SkippedFor(NO_RESULT_ID)
            ELSE /\ ~SkippedFor(NO_RESULT_ID)
                 /\ \A i \in DOMAIN db.rows :
                       /\ db.rows[i].result_id = r.id
                       /\ db.rows[i].result_count = r.count

\* the identifier that stands for an ingredient value: the id of an item or
\* tag object, a bare string, the first alternative of a choice list
RECURSIVE SlotId(_)
SlotId(v) ==
    CASE v.t = "str" -> v.s
      [] v.t = "obj" -> IF In("item", v) THEN v.o["item"].s ELSE v.o["tag"].s
      [] v.t = "list" -> SlotId(v.l[1])

IsShaped(file) == In("key", file.data) /\ In("pattern", file.data)

\* the cells of the grid of a shaped file that hold the symbol c
CellsOf(file, c) ==
    LET cells == Cells(file.data.o["pattern"].l)
    IN  {i \in DOMAIN cells : cells[i] = c}

\* the symbols of the key that are not the blank
Symbols(file) == DOMAIN file.data.o["key"].o \ {" "}

\* number of grid cells whose symbol is bound to the identifier id
CellsBoundTo(file, id) ==
    Cardinality(UNION {CellsOf(file, c) :
                         c \in {s \in Symbols(file) :
                                  SlotId(file.data.o["key"].o[s]) = id}})

PatternOf(file) ==
    [i \in DOMAIN file.data.o["pattern"].l |-> file.data.o["pattern"].l[i].s]

\* C12: the record of a shaped recipe lists one ingredient entry per grid
\* cell whose character is not blank and is a symbol of the key, so every
\* identifier occurs as often as the cells bound to it; the chest pattern
\* with '#' bound to #minecraft:planks gives exactly 8 entries of the tag;
\* the stored pattern is the pattern of the file.
C12_ShapedOneEntryPerCell ==
    (FamilyRunDone /\ IsShaped(TheFile)) =>
        \A i \in DOMAIN db.rows :
            LET l == IngredientsOf(db.rows[i])
            IN  /\ Len(l) = Cardinality(UNION {CellsOf(TheFile, c) : c \in Symbols(TheFile)})
                /\ \A id \in Range(l) \cup {TAG_PLANKS} :
                      Occurrences(l, id) = CellsBoundTo(TheFile, id)
                /\ db.rows[i].pattern_json # SQL_NULL
                /\ json_loads(db.rows[i].pattern_json) = PatternOf(TheFile)
                /\ (TheFile.data.o["pattern"] = ChestFile.data.o["pattern"]
                    /\ TheFile.data.o["key"] = ChestFile.data.o["key"])
                       => l = [k \in 1..8 |-> TAG_PLANKS]

\* C12 witness: the chest pattern was ingested with 8 entries.
C12_Witness ==
    /\ FamilyRunDone
    /\ IsShaped(TheFile)
    /\ TheFile.data.o["pattern"] = ChestFile.data.o["pattern"]
    /\ Len(db.rows) = 1
    /\ Len(IngredientsOf(db.rows[1])) = 8

RecognizedFields ==
    <<"ingredients", "ingredient", "base", "addition", "input", "material">>

\* the identifiers a field declares: one per entry of the list "ingredients",
\* one for the single item (or choice slot) of another field
DeclaredBy(file, f) ==
    IF ~In(f, file.data) THEN <<>>
    ELSE LET v == file.data.o[f]
         IN  IF f = "ingredients" /\ v.t = "list"
             THEN [i \in DOMAIN v.l |-> SlotId(v.l[i])]
             ELSE IF v.t = "list" /\ v.l = <<>> THEN <<>>
             ELSE <<SlotId(v)>>

DeclaredIngredients(file) ==
    DeclaredBy(file, "ingredients") \o DeclaredBy(file, "ingredient")
    \o DeclaredBy(file, "base") \o DeclaredBy(file, "addition")
    \o DeclaredBy(file, "input") \o DeclaredBy(file, "material")

\* every ingredient id of the file is a str
PlainIngredients(file) ==
    \A i \in DOMAIN RecognizedFields :
        In(RecognizedFields[i], file.data) =>
            LET v == file.data.o[RecognizedFields[i]]
            IN  v.t = "obj" => \A k \in DOMAIN v.o : v.o[k].t = "str"

\* C13: the record of a recipe that is not shaped lists the ingredients of
\* every recognized field, a list of k entries counting k times and a
\* single item once: the stored list has as many entries as the fields
\* declare and holds every identifier as often as they declare it.
C13_FieldsContributeEveryEntry ==
    (FamilyRunDone /\ ~In("key", TheFile.data) /\ PlainIngredients(TheFile)) =>
        \A i \in DOMAIN db.rows :
            LET l == IngredientsOf(db.rows[i])
                declared == DeclaredIngredients(TheFile)
            IN  /\ Len(l) = Len(declared)
                /\ \A id \in Range(l) \cup Range(declared) :
                      Occurrences(l, id) = Occurrences(declared, id)

HasSpecialCraftingKind(row) ==
    row.recipe_type.t = "str" /\ startswith(row.recipe_type.s, CRAFTING_SPECIAL_)

HasDecoratedPotKind(row) == row.recipe_type = JStr(CRAFTING_DECORATED_POT)

\* the file declares no ingredient the loop body extracts
NothingExtracted(file) == IngredientsFlat(file.data).ids = <<>>

\* C14 as stated: a record without ingredients has a special-crafting kind;
\* a unit without ingredients of another kind is skipped with the reason
\* "no ingredients found" and not stored.
C14_EmptyIngredientsOnlyForSpecialCrafting ==
    /\ \A i \in DOMAIN AllRows :
          IngredientsOf(AllRows[i]) = <<>> => HasSpecialCraftingKind(AllRows[i])
    /\ (FamilyRunDone /\ NothingExtracted(TheFile)
        /\ ~HasSpecialCraftingPrefix(TheFile)) =>
           db.rows = <<>> /\ SkippedFor(NO_INGREDIENTS)

\* C14, amended: a record without ingredients has a special-crafting kind or
\* the decorated-pot kind; a unit without ingredients of another kind is
\* not stored, and it is skipped with the reason "no ingredients found"
\* unless it was skipped before for having no result id.
C14_EmptyIngredientsOnlyForAllowListedKinds ==
    /\ \A i \in DOMAIN AllRows :
          IngredientsOf(AllRows[i]) = <<>> =>
              HasSpecialCraftingKind(AllRows[i]) \/ HasDecoratedPotKind(AllRows[i])
    /\ (FamilyRunDone /\ NothingExtracted(TheFile)
        /\ ~HasSpecialCraftingPrefix(TheFile)
        /\ KindOf(TheFile) # JStr(CRAFTING_DECORATED_POT)) =>
           /\ db.rows = <<>>
           /\ SkippedFor(NO_INGREDIENTS) \/ SkippedFor(NO_RESULT_ID)

\* C14 witness: a shapeless unit with a result and an empty ingredient list
\* was skipped for having no ingredients.
C14_Witness ==
    /\ FamilyRunDone
    /\ KindOf(TheFile) = JStr(CRAFTING_SHAPELESS)
    /\ In("result", TheFile.data)
    /\ NothingExtracted(TheFile)
    /\ SkippedFor(NO_INGREDIENTS)
    /\ db.rows = <<>>

\* C15: every record of the table has a non-empty result_item, and a unit
\* the rules give no result id is at no time a row of the table, committed
\* or not.
C15_ResultItemNeverEmpty ==
    /\ \A i \in DOMAIN AllRows : AllRows[i].result_id # <<>>
    /\ (Len(dir) = 1 /\ dir[1] \in UnitNames /\ PriorityResult(TheFile).rule = 5) =>
           /\ tx = <<>>
           /\ pc = "done" => db.rows = <<>>

\* C15 witness: the run over a unit without a result id has completed and
\* the unit was skipped.
C15_Witness ==
    /\ FamilyRunDone
    /\ PriorityResult(TheFile).rule = 5
    /\ SkippedFor(NO_RESULT_ID)

\* C16: the result_count of every record is a positive integer, 1 when the
\* file declares no count.
C16_ResultCountPositive ==
    /\ \A i \in DOMAIN AllRows :
          AllRows[i].result_count.t = "num" /\ AllRows[i].result_count.n >= 1
    /\ (FamilyRunDone /\ Get(TheFile.data, "result", JNull).t = "obj"
        /\ ~In("count", TheFile.data.o["result"])) =>
           \A i \in DOMAIN db.rows : db.rows[i].result_count = JNum(1)

(***************************************************************************)
(* Canonical order of the stored ingredient lists, checked under Spec.     *)
(***************************************************************************)
\* no entry of the list is smaller than an entry before it
IsSorted(l) == \A i, j \in DOMAIN l : i < j => ~StrLess(l[j], l[i])

\* the ingredients of every modelled file in the order of their
\* declaration, for the files whose ingredients are all str
Declared ==
    [name \in FileNames |->
        IF Outcome[name].out = "insert"
        THEN [i \in DOMAIN IngredientsFlat(Files[name].data).ids |->
                 IngredientsFlat(Files[name].data).ids[i].s]
        ELSE <<>>]

SameMultiset(a, b) ==
    /\ Len(a) = Len(b)
    /\ \A x \in Range(a) \cup Range(b) : Occurrences(a, x) = Occurrences(b, x)

\* the record of the i-th file of dir after a completed run
RowOf(i) == db.rows[Cardinality({j \in Ingestible : j <= i})]

\* C17: every stored ingredient list is sorted, and two files of a run that
\* declare the same multiset of ingredients, in whatever order, are stored
\* with the same ingredient list.
C17_IngredientListsCanonical ==
    /\ \A i \in DOMAIN AllRows : IsSorted(IngredientsOf(AllRows[i]))
    /\ pc = "done" =>
          \A i, j \in Ingestible :
              SameMultiset(Declared[dir[i]], Declared[dir[j]]) =>
                  RowOf(i).ingredients_json = RowOf(j).ingredients_json

\* C17 witness: the lever recipe and the lever recipe with its pattern
\* flipped were ingested by one run; they declare their two ingredients in
\* opposite orders.
C17_Witness ==
    /\ pc = "done"
    /\ Len(dir) = 2
    /\ Ingestible = {1, 2}
    /\ Declared[dir[1]] # Declared[dir[2]]
    /\ SameMultiset(Declared[dir[1]], Declared[dir[2]])
    /\ Len(db.rows) = 2

(***************************************************************************)
(* The lookups of RecipeDB by result id, by display name and by            *)
(* ingredient (repository.py:14-45) on a committed store.                  *)
(***************************************************************************)
\* repository.py:14-22
find_recipes_by_id(rows, item_id) ==
    LET id == IF ~startswith(item_id, NS_MINECRAFT) THEN NS_MINECRAFT \o item_id
              ELSE item_id
    IN  SelectSeq(rows, LAMBDA row : row.result_id = id)

\* the LIKE operator of SQLite: '%' matches any text, '_' any one character,
\* another character matches itself whatever its (ASCII) case
RECURSIVE like(_, _)
like(pattern, text) ==
    IF pattern = <<>> THEN text = <<>>
    ELSE IF Head(pattern) = "%"
    THEN like(Tail(pattern), text) \/ (text # <<>> /\ like(pattern, Tail(text)))
    ELSE IF text = <<>> THEN FALSE
    ELSE /\ Head(pattern) = "_" \/ lower(Head(pattern)) = lower(Head(text))
         /\ like(Tail(pattern), Tail(text))

\* repository.py:24-29
find_recipes_by_name(rows, name) ==
    SelectSeq(rows, LAMBDA row : like(<<"%">> \o name \o <<"%">>, row.result_name))

\* FROM recipes r, json_each(r.ingredients_json) j WHERE j.value = ?: a row
\* for every entry of a record's list that equals the argument
RECURSIVE JoinEach(_, _)
JoinEach(rows, ingredient_id) ==
    IF rows = <<>> THEN <<>>
    ELSE SelectSeq([i \in DOMAIN IngredientsOf(Head(rows)) |->
                       [r |-> Head(rows), value |-> IngredientsOf(Head(rows))[i]]],
                   LAMBDA j : j.value = ingredient_id)
         \o JoinEach(Tail(rows), ingredient_id)

\* Mutant of find_recipes_by_ingredient_exact: SELECT r.* without DISTINCT.
find_recipes_by_ingredient_exact_all(rows, ingredient_id) ==
    LET joined == JoinEach(rows, ingredient_id)
    IN  [i \in DOMAIN joined |-> joined[i].r]

\* SELECT DISTINCT: a row once, at its first position
RECURSIVE Distinct(_)
Distinct(l) ==
    IF l = <<>> THEN <<>>
    ELSE LET rest == Distinct(SubSeq(l, 1, Len(l) - 1))
         IN  IF l[Len(l)] \in Range(rest) THEN rest ELSE Append(rest, l[Len(l)])

\* repository.py:31-45
find_recipes_by_ingredient_exact(rows, ingredient_id) ==
    LET joined == JoinEach(rows, ingredient_id)
    IN  Distinct([i \in DOMAIN joined |-> joined[i].r])

\* the row create_database stores for a recipe with this result and these
\* ingredients
LookupRow(result_id, ingredients) ==
    [result_id |-> result_id,
     result_name |-> get_clean_name(result_id),
     result_count |-> JNum(1),
     recipe_type |-> JStr(CRAFTING_SHAPELESS),
     ingredients_json |-> json_dumps(sorted(ingredients)),
     pattern_json |-> SQL_NULL]

LookupRows ==
    <<LookupRow(CHEST, <<TAG_PLANKS, TAG_PLANKS>>),
      LookupRow(MOD_CHEST, <<OAK_PLANKS, STICK>>),
      LookupRow(TORCH, <<STICK, STICK>>),
      LookupRow(LEVER, <<STICK, COBBLESTONE>>),
      QueryRow(<<>>)>>

\* the rows of LookupRows at the positions S, as a table with the rowids
\* 1, 2, ...
RECURSIVE LookupTable(_, _)
LookupTable(S, rows) ==
    IF S = {} THEN rows
    ELSE LET i == CHOOSE x \in S : \A y \in S : x <= y
         IN  LookupTable(S \ {i}, Append(rows, WithId(LookupRows[i], NextId(rows))))

\* the committed stores the lookups run on
LookupStores ==
    {[exists |-> TRUE, rows |-> LookupTable(S, <<>>)] : S \in SUBSET DOMAIN LookupRows}

\* arguments of find_recipes_by_id: with the default namespace, without a
\* namespace, with another namespace
IdArguments ==
    {CHEST, split_last(CHEST, ":"), MOD_CHEST, TORCH, split_last(TORCH, ":"),
     split_last(STICK, ":")}

\* arguments of find_recipes_by_name: every text of up to MaxNeedle of
\* these characters
NeedleAlphabet == {"c", "H", "e", "r", "%", "_"}

NameArguments == UNION {[1..n -> NeedleAlphabet] : n \in 0..MaxNeedle}

\* arguments of find_recipes_by_ingredient_exact
IngredientArguments ==
    {STICK, TAG_PLANKS, PLANKS, OAK_PLANKS, COBBLESTONE, split_last(STICK, ":")}

\* the default of the parameter limit of find_recipes
DEFAULT_LIMIT == 20

\* LIMIT ?: a negative value puts no upper bound
Limit(rows, limit) ==
    IF limit < 0 \/ limit >= Len(rows) THEN rows ELSE SubSeq(rows, 1, limit)

\* repository.py:102-114: the WHERE clause; an argument that is None, or
\* empty, is <<>> and adds no condition
matching_recipes(rows, name, ingredients, recipe_type) ==
    SelectSeq(rows,
              LAMBDA row :
                  /\ name # <<>> => like(<<"%">> \o name \o <<"%">>, row.result_name)
                  /\ \A i \in DOMAIN ingredients :
                        like(<<"%", "\"">> \o ingredients[i] \o <<"\"", "%">>,
                             row.ingredients_json)
                  /\ recipe_type # <<>> => row.recipe_type = JStr(recipe_type))

\* repository.py:99-123
find_recipes(rows, name, ingredients, recipe_type, limit) ==
    Limit(matching_recipes(rows, name, ingredients, recipe_type), limit)

\* cur.execute on a database file without the table recipes
fetch_error(d) == IF d.exists THEN NoExc ELSE "OperationalError"

\* arguments of find_recipes
CriteriaNames == {<<>>, <<"C", "H", "E">>, <<"_">>}

CriteriaIngredients ==
    {<<>>, <<STICK>>, <<STICK, COBBLESTONE>>, <<PLANKS>>, <<<<"%">>>>}

CriteriaKinds ==
    {<<>>, CRAFTING_SHAPELESS, CRAFTING_SHAPED, CRAFTING_SPECIAL_ARMORDYE}

CriteriaLimits == {-1, 0, 1, DEFAULT_LIMIT}

\* inventories of the find_craftable_recipes calls of the lookups
LookupInventories ==
    {<<>>, <<TORCH>>, <<TORCH, LEVER>>, <<STICK, STICK>>, <<PLANKS, PLANKS>>}

InitLookup ==
    /\ db \in LookupStores \cup {NoTable}
    /\ dir = <<>>
    /\ tx = <<>>
    /\ pc = "idle"
    /\ idx = 1
    /\ processed_files = 0
    /\ skipped_files = <<>>
    /\ exc = NoExc
    /\ runs = 0
    /\ prev = db
    /\ lastDone = <<>>
    /\ seen = <<>>
    /\ QueryIdle
    /\ ChatIdle

\* a call of RecipeDB.find_recipes_by_id.  The SELECT raises when the table
\* is missing.  The lookups read the store and leave it as it is, so one
\* lookup per behaviour covers them.
FindById ==
    /\ lookup = NoLookup
    /\ \E item_id \in IdArguments :
          /\ lookup' = [op |-> "by_id", arg |-> item_id]
          /\ found' = IF db.exists THEN find_recipes_by_id(db.rows, item_id) ELSE <<>>
    /\ raised' = fetch_error(db)
    /\ UNCHANGED <<db, available_ingredients, exact_match, craftable_recipes, qpc>>
    /\ UNCHANGED <<builderVars, chatVars>>

\* a call of RecipeDB.find_recipes_by_name
FindByName ==
    /\ lookup = NoLookup
    /\ \E name \in NameArguments :
          /\ lookup' = [op |-> "by_name", arg |-> name]
          /\ found' = IF db.exists THEN find_recipes_by_name(db.rows, name) ELSE <<>>
    /\ raised' = fetch_error(db)
    /\ UNCHANGED <<db, available_ingredients, exact_match, craftable_recipes, qpc>>
    /\ UNCHANGED <<builderVars, chatVars>>

\* a call of RecipeDB.find_recipes_by_ingredient_exact
FindByIngredientExact ==
    /\ lookup = NoLookup
    /\ \E ingredient_id \in IngredientArguments :
          /\ lookup' = [op |-> "by_ingredient_exact", arg |-> ingredient_id]
          /\ found' = IF db.exists THEN find_recipes_by_ingredient_exact(db.rows, ingredient_id) ELSE <<>>
    /\ raised' = fetch_error(db)
    /\ UNCHANGED <<db, available_ingredients, exact_match, craftable_recipes, qpc>>
    /\ UNCHANGED <<builderVars, chatVars>>

\* a call of RecipeDB.find_recipes
FindRecipes ==
    /\ lookup = NoLookup
    /\ \E name \in CriteriaNames, ingredients \in CriteriaIngredients,
          recipe_type \in CriteriaKinds, limit \in CriteriaLimits :
          /\ lookup' = [op |-> "find_recipes", arg |-> [name |-> name, ingredients |-> ingredients,
                                                       recipe_type |-> recipe_type, limit |-> limit]]
          /\ found' = IF db.exists THEN find_recipes(db.rows, name, ingredients, recipe_type, limit) ELSE <<>>
    /\ raised' = fetch_error(db)
    /\ UNCHANGED <<db, available_ingredients, exact_match, craftable_recipes, qpc>>
    /\ UNCHANGED <<builderVars, chatVars>>

\* a call of RecipeDB.find_craftable_recipes
FindCraftableWith ==
    /\ lookup = NoLookup
    /\ \E inv \in LookupInventories, exact \in BOOLEAN :
          /\ lookup' = [op |-> "find_craftable_recipes", arg |-> [available_ingredients |-> inv, exact_match |-> exact]]
          /\ found' = IF db.exists THEN find_craftable_recipes(db.rows, inv, exact) ELSE <<>>
    /\ raised' = fetch_error(db)
    /\ UNCHANGED <<db, available_ingredients, exact_match, craftable_recipes, qpc>>
    /\ UNCHANGED <<builderVars, chatVars>>

NextLookup ==
    \/ FindById
    \/ FindByName
    \/ FindByIngredientExact
    \/ FindRecipes
    \/ FindCraftableWith

SpecLookup == InitLookup /\ [][NextLookup]_vars

(***************************************************************************)
(* Properties of the lookups, checked under SpecLookup.                    *)
(***************************************************************************)
\* the id carries a namespace
HasNamespace(id) == ":" \in Range(id)

\* the caller's id with the default namespace added when it has none
Normalized(id) == IF HasNamespace(id) THEN id ELSE NS_MINECRAFT \o id

\* C18: find_recipes_by_id returns exactly the records whose result_item is
\* the normalized id, in store order; the default namespace is added only
\* to an id without a namespace, and an id with a namespace, the default one
\* or another, is matched as it is; "chest" and "minecraft:chest" give the
\* same records.
C18_FindByIdNormalizesNamespace ==
    lookup.op = "by_id" =>
        /\ found = SelectSeq(db.rows, LAMBDA row : row.result_id = Normalized(lookup.arg))
        /\ lookup.arg = split_last(CHEST, ":") =>
              found = SelectSeq(db.rows, LAMBDA row : row.result_id = CHEST)

LowerText(s) == [i \in DOMAIN s |-> lower(s[i])]

\* s is a substring of the text, whatever the case of the letters
ContainsIgnoringCase(s, text) == contains(LowerText(s), LowerText(text))

\* C19: find_recipes_by_name(s) returns exactly the records whose display
\* name contains s as a substring, case-insensitively, in store order, for
\* every string s, those with '%' or '_' included; a string no name
\* contains gives the empty list.
C19_FindByNameIsSubstringMatch ==
    lookup.op = "by_name" =>
        found = SelectSeq(db.rows,
                          LAMBDA row : ContainsIgnoringCase(lookup.arg, row.result_name))

\* C20: find_recipes_by_ingredient_exact(x) returns every record whose
\* ingredient list holds the identifier x itself, no other record, and each
\* record once, however often x occurs in its list; a tag reference matches
\* the same tag string only.
C20_FindByIngredientExact ==
    lookup.op = "by_ingredient_exact" =>
        /\ \A i \in DOMAIN db.rows :
              (lookup.arg \in Range(IngredientsOf(db.rows[i])))
                  <=> (db.rows[i] \in Range(found))
        /\ Range(found) \subseteq Range(db.rows)
        /\ \A i, j \in DOMAIN found : found[i] = found[j] => i = j

\* C20 witness: the lookup of the stick returned once a record that lists
\* the stick twice, and left out a record stored without the stick.
C20_Witness ==
    /\ lookup = [op |-> "by_ingredient_exact", arg |-> STICK]
    /\ \E i \in DOMAIN found : Occurrences(IngredientsOf(found[i]), STICK) = 2
    /\ \E i \in DOMAIN db.rows : db.rows[i] \notin Range(found)

(***************************************************************************)
(* Relations between calls of find_craftable_recipes, checked under        *)
(* SpecQuery.  The query is a function of the store and its arguments, so  *)
(* what another call on the same store returns is the value of the         *)
(* function.                                                               *)
(***************************************************************************)
RowIds(rows) == {rows[i].id : i \in DOMAIN rows}

\* the rowids find_craftable_recipes(inv, exact_match=False) returns on the
\* store that holds a record for every ingredient list
SubsetResult ==
    [inv \in Inventories |->
        RowIds(find_craftable_recipes(Table(QueryRows, <<>>), inv, FALSE))]

\* the rowids the subset query returns on the store of this behaviour
SubsetResultHere(inv) == IF db.rows = <<>> THEN {} ELSE SubsetResult[inv]

\* the inventory b holds every item of a at least as many times
Includes(b, a) == \A x \in Range(a) : Occurrences(b, x) >= Occurrences(a, x)

\* C28: subset craftability is monotone in the inventory: a record returned
\* for the inventory A with exact_match=False is returned for every
\* inventory B that holds every item of A at least as many times.
C28_SubsetMonotoneInInventory ==
    SubsetQueryDone =>
        \A B \in Inventories :
            Includes(B, available_ingredients) =>
                RowIds(craftable_recipes) \subseteq SubsetResultHere(B)

\* C28 witness: the query returned a record, and a strictly larger inventory
\* exists.
C28_Witness ==
    /\ SubsetQueryDone
    /\ craftable_recipes # <<>>
    /\ \E B \in Inventories :
          Includes(B, available_ingredients) /\ Len(B) > Len(available_ingredients)

\* C29: exact matching is at least as strict as subset matching: a record
\* returned with exact_match=True is returned for the same inventory with
\* exact_match=False, also when its list holds tag references.
C29_ExactImpliesSubset ==
    ExactQueryDone =>
        RowIds(craftable_recipes) \subseteq SubsetResultHere(available_ingredients)

\* C29 witness: the exact query returned a record whose list holds a tag
\* reference.
C29_Witness ==
    /\ ExactQueryDone
    /\ \E i \in DOMAIN craftable_recipes :
          \E id \in Range(IngredientsOf(craftable_recipes[i])) : IsTagReference(id)

\* C30: no inventory item is used twice: a record returned with
\* exact_match=False requires no more ingredient entries than the inventory
\* has items.
C30_NoInventoryItemUsedTwice ==
    SubsetQueryDone =>
        \A i \in DOMAIN craftable_recipes :
            Len(IngredientsOf(craftable_recipes[i])) <= Len(available_ingredients)

\* the criteria of the last find_recipes call
Criteria == lookup.arg

\* C21: find_recipes is a conjunctive filter: every returned record has a
\* display name that contains the given name, the given kind, and every
\* listed ingredient id in its ingredient list at least once; a call without
\* criteria returns the records of the store, up to limit.
C21_FindRecipesIsConjunctiveFilter ==
    lookup.op = "find_recipes" =>
        /\ \A i \in DOMAIN found :
              /\ ContainsIgnoringCase(Criteria.name, found[i].result_name)
              /\ Criteria.recipe_type # <<>> =>
                    found[i].recipe_type = JStr(Criteria.recipe_type)
              /\ \A k \in DOMAIN Criteria.ingredients :
                    Criteria.ingredients[k] \in Range(IngredientsOf(found[i]))
        /\ (/\ Criteria.name = <<>>
            /\ Criteria.ingredients = <<>>
            /\ Criteria.recipe_type = <<>>
            /\ Criteria.limit >= Len(db.rows)) => found = db.rows

\* the records that satisfy the criteria of the last find_recipes call
MatchingRecords ==
    matching_recipes(db.rows, Criteria.name, Criteria.ingredients, Criteria.recipe_type)

\* C22: find_recipes never returns more than limit records (none for a limit
\* below 0), whatever integer the caller passes; when at most limit records
\* match, all of them are returned.
C22_FindRecipesCappedAtLimit ==
    lookup.op = "find_recipes" =>
        /\ Len(found) <= (IF Criteria.limit < 0 THEN 0 ELSE Criteria.limit)
        /\ Len(MatchingRecords) <= Criteria.limit => found = MatchingRecords

StoredIngredients == UNION {Range(IngredientsOf(db.rows[i])) : i \in DOMAIN db.rows}

StoredKinds == {db.rows[i].recipe_type : i \in DOMAIN db.rows}

NoNameContains(s) ==
    \A i \in DOMAIN db.rows : ~ContainsIgnoringCase(s, db.rows[i].result_name)

\* the item is no stored ingredient and satisfies no stored tag reference
UnknownItem(item) ==
    \A ing \in StoredIngredients :
        /\ item # ing
        /\ IsTagReference(ing) => ~contains(LocalName(ing), item)

\* the last call asks for something the store does not hold
NotFound ==
    CASE lookup.op = "by_id" ->
            \A i \in DOMAIN db.rows :
                db.rows[i].result_id \notin {lookup.arg, NS_MINECRAFT \o lookup.arg}
      [] lookup.op = "by_name" -> NoNameContains(lookup.arg)
      [] lookup.op = "by_ingredient_exact" -> lookup.arg \notin StoredIngredients
      [] lookup.op = "find_recipes" ->
            \/ Criteria.name # <<>> /\ NoNameContains(Criteria.name)
            \/ \E k \in DOMAIN Criteria.ingredients :
                  Criteria.ingredients[k] \notin StoredIngredients
            \/ Criteria.recipe_type # <<>> /\ JStr(Criteria.recipe_type) \notin StoredKinds
      [] lookup.op = "find_craftable_recipes" ->
            \A k \in DOMAIN lookup.arg.available_ingredients :
                UnknownItem(lookup.arg.available_ingredients[k])
      [] OTHER -> FALSE

\* C23: no query raises for "not found": on a committed store, a call with
\* an id, a name, an ingredient or a kind that the store does not hold
\* returns the empty list and raises nothing.
C23_NotFoundIsEmptyList ==
    (db.exists /\ NotFound) => (raised = NoExc /\ found = <<>>)

(***************************************************************************)
(* Choice slots, checked under SpecUnit.                                   *)
(***************************************************************************)
\* the fields that hold one ingredient
SingleIngredientFields == <<"ingredient", "base", "addition", "input", "material">>

\* the identifiers of every alternative of an ingredient value
RECURSIVE Alternatives(_)
Alternatives(v) ==
    CASE v.t = "str" -> {v.s}
      [] v.t = "obj" -> {v.o[k].s : k \in DOMAIN v.o \cap {"item", "tag"}}
      [] v.t = "list" -> UNION {Alternatives(v.l[i]) : i \in DOMAIN v.l}
      [] OTHER -> {}

\* what one slot contributes: the identifier of its first alternative,
\* nothing for an empty list of alternatives
RECURSIVE FirstAlternative(_)
FirstAlternative(v) ==
    IF v.t = "list"
    THEN (IF v.l = <<>> THEN <<>> ELSE FirstAlternative(v.l[1]))
    ELSE <<SlotId(v)>>

\* the occupied cells of the grid: not blank, and a symbol of the key
RECURSIVE OccupiedCells(_, _)
OccupiedCells(cells, key) ==
    IF cells = <<>> THEN <<>>
    ELSE (IF Head(cells) # " " /\ Head(cells) \in DOMAIN key.o
          THEN <<key.o[Head(cells)]>> ELSE <<>>) \o OccupiedCells(Tail(cells), key)

\* the slots of a file without the field "ingredients": its single
\* ingredient fields, then the occupied cells of its grid
Slots(file) ==
    LET single(i) == IF In(SingleIngredientFields[i], file.data)
                     THEN <<file.data.o[SingleIngredientFields[i]]>> ELSE <<>>
    IN  single(1) \o single(2) \o single(3) \o single(4) \o single(5)
        \o (IF IsShaped(file)
            THEN OccupiedCells(Cells(file.data.o["pattern"].l), file.data.o["key"])
            ELSE <<>>)

RECURSIVE Representatives(_)
Representatives(slots) ==
    IF slots = <<>> THEN <<>>
    ELSE FirstAlternative(Head(slots)) \o Representatives(Tail(slots))

ChoiceSlots(file) == {i \in DOMAIN Slots(file) : Slots(file)[i].t = "list"}

\* C24: a choice slot, a list of alternatives bound to a pattern symbol or
\* given as a single-ingredient field, contributes one identifier per
\* occupied slot, that of its first alternative, extracted recursively: the
\* stored list holds every identifier as often as slots are represented by
\* it, no other alternative is in it, and an empty list of alternatives
\* contributes nothing.
C24_ChoiceSlotIsFirstAlternative ==
    (FamilyRunDone /\ ~In("ingredients", TheFile.data) /\ ChoiceSlots(TheFile) # {}) =>
        \A i \in DOMAIN db.rows :
            LET l == IngredientsOf(db.rows[i])
                slots == Slots(TheFile)
                expected == Representatives(slots)
            IN  /\ Len(l) = Len(expected)
                /\ \A id \in Range(l) \cup Range(expected) :
                      Occurrences(l, id) = Occurrences(expected, id)
                /\ \A k \in ChoiceSlots(TheFile) :
                      \A id \in Alternatives(slots[k]) \ Range(expected) :
                          id \notin Range(l)

\* C24 witness: the grid with two cells bound to the choice of oak and birch
\* planks was ingested as two entries of oak planks.
C24_Witness ==
    /\ FamilyRunDone
    /\ IsShaped(TheFile)
    /\ Cardinality(ChoiceSlots(TheFile)) = 2
    /\ Len(db.rows) = 1
    /\ IngredientsOf(db.rows[1]) = <<OAK_PLANKS, OAK_PLANKS>>

\* the file has an entry in skipped_files: its name, then a reason
HasSkipEntry(name) ==
    \E k \in DOMAIN skipped_files :
        /\ startswith(skipped_files[k], FileName(Files[name]))
        /\ Len(skipped_files[k]) > Len(FileName(Files[name]))

\* C25: every file of a completed run is accounted for: processed_files
\* plus the number of entries of skipped_files is the number of files
\* visited, and every file without a record, one dropped by the handler of
\* KeyError and TypeError included, has an entry in skipped_files with its
\* name and a reason.
C25_EveryUnitAccountedFor ==
    pc = "done" =>
        /\ processed_files + Len(skipped_files) = Len(dir)
        /\ \A i \in DOMAIN dir :
              Outcome[dir[i]].out # "insert" => HasSkipEntry(dir[i])

(***************************************************************************)
(* SmartGeminiBackend (chat_service.py:8-63) and process_chat_turn         *)
(* (client.py:60-115).  chat is a coroutine that never yields to the event *)
(* loop before it returns (process_chat_turn awaits nothing), so one chat  *)
(* call is in progress at a time.  The clock is read when a call starts    *)
(* and when it returns; it advances between the two reads and between      *)
(* calls.  The model of the Gemini API answers every message with any      *)
(* response, or raises.                                                    *)
(***************************************************************************)
MaxCalls == 2    \* chat calls in one behaviour
MaxTicks == 2    \* advances of the clock in one behaviour

Players == {"Steve", "Alex"}

\* settings.py:20
TIMEOUT_SECONDS == 300

\* the amounts the clock advances by
Deltas == {1, TIMEOUT_SECONDS}

\* client.py:44-46: the False get_chat returns when chats.create raises
NotAChat == 0

\* registry.py:22-31: the names tool_registry.implementations maps
implementations == {"find_recipes"}

\* client.py:80: range(5)
MaxFunctionCalls == 5

\* a part of a response: the name of the function it calls, or "", and its
\* text, or 0 for None and the empty text
Part(function_call, text) == [function_call |-> function_call, text |-> text]

\* what chat.send_message may return for the n-th message of a turn
Responses(n) ==
    {NoParts,
     [parts |-> <<Part("find_recipes", 0)>>],
     [parts |-> <<Part("other_tool", 0)>>],
     [parts |-> <<Part("", n)>>],
     [parts |-> <<Part("", 0)>>],
     [parts |-> <<Part("", n), Part("find_recipes", 0)>>]}

\* Mutant of expired: a session is forgotten as soon as it is
\* TIMEOUT_SECONDS old.
expired_at_timeout(last_active, current_time) ==
    (current_time - last_active) >= TIMEOUT_SECONDS

\* chat_service.py:30
expired(last_active, current_time) ==
    (current_time - last_active) > TIMEOUT_SECONDS

\* chat_service.py:24-47; new_chat is what get_chat returns when it is
\* called.  The result is self.sessions and the chat returned.
get_clean_session(s, player_name, current_time, new_chat) ==
    LET fresh == /\ player_name \in DOMAIN s
                 /\ ~expired(s[player_name].last_active, current_time)
        kept == [q \in DOMAIN s \ {player_name} |-> s[q]]
    IN  IF fresh
        THEN [sessions |-> s, chat |-> s[player_name].chat]
        ELSE [sessions |-> (player_name :> [chat |-> new_chat,
                                            last_active |-> current_time]) @@ kept,
              chat |-> new_chat]

\* Mutant of loop_continues: the loop runs a sixth time.
loop_continues_once_more(n) == n < MaxFunctionCalls + 1

\* client.py:80: the for loop has another iteration after n of them
loop_continues(n) == n < MaxFunctionCalls

\* client.py:107
ErrorString == [t |-> "error", text |-> 0]

\* client.py:110
final_text(r) ==
    IF r.parts # <<>> /\ r.parts[1].text # 0
    THEN [t |-> "text", text |-> r.parts[1].text]
    ELSE [t |-> "text", text |-> 0]

InitChat ==
    /\ db = NoTable
    /\ dir = <<>>
    /\ tx = <<>>
    /\ pc = "idle"
    /\ idx = 1
    /\ processed_files = 0
    /\ skipped_files = <<>>
    /\ exc = NoExc
    /\ runs = 0
    /\ prev = db
    /\ lastDone = <<>>
    /\ seen = <<>>
    /\ QueryIdle
    /\ ChatIdle

\* time passes between two reads of the clock
Tick ==
    /\ tpc \in {"idle", "done"}
    /\ ticks < MaxTicks
    /\ \E d \in Deltas : now' = now + d
    /\ ticks' = ticks + 1
    /\ UNCHANGED <<sessions, created, calls, call, tpc, iter, response, responses,
                   tool_calls, answer, ended>>
    /\ UNCHANGED <<db, builderVars, queryVars>>

\* chat_service.py:49-57: a chat call starts; _get_clean_session, with
\* get_chat (client.py:36-46) returning a new chat or False
ChatCall ==
    /\ tpc = "idle"
    /\ calls < MaxCalls
    /\ \E player_name \in Players, made \in BOOLEAN :
          LET fresh == /\ player_name \in DOMAIN sessions
                       /\ ~expired(sessions[player_name].last_active, now)
              new_chat == IF made THEN created + 1 ELSE NotAChat
              got == get_clean_session(sessions, player_name, now, new_chat)
          IN  /\ fresh => made
              /\ sessions' = got.sessions
              /\ created' = IF ~fresh /\ made THEN created + 1 ELSE created
              /\ call' = [player |-> player_name, chat |-> got.chat, start |-> now,
                          before |-> sessions, created |-> created]
    /\ calls' = calls + 1
    /\ tpc' = "send"
    /\ UNCHANGED <<now, ticks, iter, response, responses, tool_calls, answer, ended>>
    /\ UNCHANGED <<db, builderVars, queryVars>>

\* client.py:72-76, 112-115: the prompt is sent; send_message raises, and
\* False has no send_message
SendPrompt ==
    /\ tpc = "send"
    /\ \/ /\ call.chat # NotAChat
          /\ \E r \in Responses(1) :
                /\ response' = r
                /\ responses' = <<r>>
          /\ tpc' = "loop"
       \/ /\ tpc' = "raised"
          /\ UNCHANGED <<response, responses>>
    /\ iter' = 0
    /\ UNCHANGED <<now, ticks, sessions, created, calls, call, tool_calls, answer,
                   ended>>
    /\ UNCHANGED <<db, builderVars, queryVars>>

\* client.py:80-94, 104-107: the head of an iteration: the first part of
\* the response, the break, the lookup and the call of the tool function
FunctionCallStep ==
    /\ tpc = "loop"
    /\ IF ~loop_continues(iter)
       THEN /\ tpc' = "after"
            /\ UNCHANGED <<tool_calls, answer>>
       ELSE IF response.parts = <<>>
       THEN /\ tpc' = "raised"
            /\ UNCHANGED <<tool_calls, answer>>
       ELSE IF response.parts[1].function_call = ""
       THEN /\ tpc' = "after"
            /\ UNCHANGED <<tool_calls, answer>>
       ELSE IF response.parts[1].function_call \notin implementations
       THEN /\ tpc' = "done"
            /\ answer' = ErrorString
            /\ UNCHANGED tool_calls
       ELSE /\ tool_calls' = tool_calls + 1
            /\ \/ /\ tpc' = "respond"
                  /\ UNCHANGED answer
               \/ /\ tpc' = "done"
                  /\ answer' = ErrorString
    /\ UNCHANGED <<now, ticks, sessions, created, calls, call, iter, response,
                   responses, ended>>
    /\ UNCHANGED <<db, builderVars, queryVars>>

\* client.py:96-107: the result of the function goes back to the model
SendFunctionResponse ==
    /\ tpc = "respond"
    /\ \/ /\ \E r \in Responses(Len(responses) + 1) :
                /\ response' = r
                /\ responses' = Append(responses, r)
          /\ iter' = iter + 1
          /\ tpc' = "loop"
          /\ UNCHANGED answer
       \/ /\ tpc' = "done"
          /\ answer' = ErrorString
          /\ UNCHANGED <<response, responses, iter>>
    /\ UNCHANGED <<now, ticks, sessions, created, calls, call, tool_calls, ended>>
    /\ UNCHANGED <<db, builderVars, queryVars>>

\* client.py:109-110
ReturnText ==
    /\ tpc = "after"
    /\ answer' = final_text(response)
    /\ tpc' = "done"
    /\ UNCHANGED <<now, ticks, sessions, created, calls, call, iter, response,
                   responses, tool_calls, ended>>
    /\ UNCHANGED <<db, builderVars, queryVars>>

\* the record of a call that ended with the sessions s
Ended(outcome, s) ==
    [outcome |-> outcome, player |-> call.player, chat |-> call.chat,
     start |-> call.start, end |-> now, before |-> call.before, after |-> s,
     created |-> call.created]

\* chat_service.py:58-63: process_chat_turn has returned
ChatReturn ==
    /\ tpc = "done"
    /\ sessions' = [sessions EXCEPT ![call.player].last_active = now]
    /\ ended' = Ended("returned", sessions')
    /\ call' = NoCall
    /\ tpc' = "idle"
    /\ iter' = 0
    /\ response' = NoParts
    /\ responses' = <<>>
    /\ tool_calls' = 0
    /\ answer' = NoAnswer
    /\ UNCHANGED <<now, ticks, created, calls>>
    /\ UNCHANGED <<db, builderVars, queryVars>>

\* chat_service.py:58, client.py:112-115: the exception leaves chat
ChatRaise ==
    /\ tpc = "raised"
    /\ ended' = Ended("raised", sessions)
    /\ call' = NoCall
    /\ tpc' = "idle"
    /\ iter' = 0
    /\ response' = NoParts
    /\ responses' = <<>>
    /\ tool_calls' = 0
    /\ answer' = NoAnswer
    /\ UNCHANGED <<now, ticks, sessions, created, calls>>
    /\ UNCHANGED <<db, builderVars, queryVars>>

\* chat_service.py:65-75
CleanupMemory ==
    /\ tpc = "idle"
    /\ \E player \in DOMAIN sessions : expired(sessions[player].last_active, now)
    /\ sessions' = [player \in {q \in DOMAIN sessions :
                                  ~expired(sessions[q].last_active, now)}
                      |-> sessions[player]]
    /\ UNCHANGED <<now, ticks, created, calls, call, tpc, iter, response, responses,
                   tool_calls, answer, ended>>
    /\ UNCHANGED <<db, builderVars, queryVars>>

\* the steps of process_chat_turn
Turn ==
    \/ SendPrompt
    \/ FunctionCallStep
    \/ SendFunctionResponse
    \/ ReturnText

NextChat ==
    \/ Tick
    \/ ChatCall
    \/ SendPrompt
    \/ FunctionCallStep
    \/ SendFunctionResponse
    \/ ReturnText
    \/ ChatReturn
    \/ ChatRaise
    \/ CleanupMemory

SpecChat == InitChat /\ [][NextChat]_vars

\* every statement of process_chat_turn is followed by the next one, and
\* send_message and the tool function return or raise
SpecChatLive == SpecChat /\ WF_vars(Turn)

(***************************************************************************)
(* Properties of the chat sessions, checked under SpecChat.                *)
(***************************************************************************)
\* the player of the last call had a session that was at most
\* TIMEOUT_SECONDS old when the call started
HadLiveSession ==
    /\ ended.player \in DOMAIN ended.before
    /\ ended.start - ended.before[ended.player].last_active <= TIMEOUT_SECONDS

IsFunctionCall(r) == r.parts # <<>> /\ r.parts[1].function_call # ""

\* the response has a first part and it is not a function call
IsFinal(r) == r.parts # <<>> /\ r.parts[1].function_call = ""

\* what C27 says of every state of a turn
TurnIsBounded ==
    /\ tool_calls <= 5
    /\ tool_calls <= Cardinality({j \in DOMAIN responses : IsFunctionCall(responses[j])})
    /\ \A j \in DOMAIN responses :
          IsFinal(responses[j]) =>
              /\ j = Len(responses)
              /\ tool_calls = j - 1
              /\ tpc \in {"loop", "after", "done"}
              /\ tpc = "done" =>
                    answer = [t |-> "text", text |-> responses[j].parts[1].text]
    /\ (tpc = "done" /\ answer.t = "error") =>
          /\ \A j \in DOMAIN responses : IsFunctionCall(responses[j])
          /\ tool_calls \in {Len(responses) - 1, Len(responses)}

\* C27: process_chat_turn terminates and calls at most 5 tools in a turn,
\* however many function calls the model requests; it calls no tool after
\* the first response whose first part is not a function call and returns
\* the text of that response; when a tool call raises it returns the error
\* string without another message to the model.
C27_TurnTerminatesWithinFiveToolCalls ==
    /\ []TurnIsBounded
    /\ (tpc = "send") ~> (tpc \in {"done", "raised"})

\* C27 witness: the model requested a function call six times; the turn
\* ended after 5 tool calls.
C27_Witness ==
    /\ tpc = "done"
    /\ tool_calls = 5
    /\ Len(responses) = 6
    /\ IsFunctionCall(responses[6])

====
